---------------------------- MODULE Spec2Model ----------------------------
(***************************************************************************)
(* Credential lifecycle and request admission of the auth-service:         *)
(*   - the in-memory rate limiter (middleware.RateLimiter),                *)
(*   - the JWT token engine (utils.generateToken / utils.ValidateToken),   *)
(*   - the credential service (services.AuthService).                      *)
(* Each component has its own specification: SpecRL and SpecMW for the     *)
(* rate limiter and the middleware chain, SpecSeq for allow calls made     *)
(* one after the other, SpecKey for the client key, SpecTok and SpecTwice  *)
(* for the token engine, SpecPw for the password strength rules, SpecAuth  *)
(* for the sessions, SpecReg for the registrations and SpecForm for the    *)
(* validation of one registration of the credential service.  The          *)
(* variables of the other components stay at their initial values.         *)
(***************************************************************************)
EXTENDS Integers, Naturals, Sequences, FiniteSets, TLC

(***************************************************************************)
(* Bounds of the model.                                                    *)
(***************************************************************************)
MaxTime == 3         \* the clock runs from 0 to MaxTime ticks
MaxLimit == 2        \* NewRateLimiter is called with limit in 1..MaxLimit
MaxWindow == 2       \* and with window in 1..MaxWindow ticks
NumProcs == 2        \* concurrent request goroutines
NumKeys == 2         \* distinct client keys (IP addresses)

Procs == 1..NumProcs
Keys == 1..NumKeys
Times == 0..MaxTime

VARIABLES
    now,        \* the clock (time.Now()), in ticks
    \* ---- middleware.RateLimiter ----
    limit,      \* RateLimiter.limit
    window,     \* RateLimiter.window
    clients,    \* RateLimiter.clients: map from key to client{tokens,lastReset}
    mu,         \* RateLimiter.mu: 0 when free, else the holder
    pc,         \* position of each request goroutine inside Limit/allow
    loc,        \* locals of each request goroutine: ip, now, and bookkeeping
    ret,        \* (allowed, remaining, resetTime) returned by allow
    nextTick,   \* next instant at which the cleanup ticker fires
    admitted,   \* history: requests admitted per key since its window start
    calls,      \* history: allow calls per key since its window start
    touched,    \* history: time of the last allow call per key
    \* ---- utils (JWT token engine) ----
    gen,        \* the last call of GenerateAccessToken/GenerateRefreshToken
    cur,        \* the token string presented to ValidateToken
    vres,       \* the last call of ValidateToken: its inputs and its result
    sawExpired, \* history: the issued token was once reported expired
    again,      \* a second call of the generator with the arguments of gen,
                \* and the validation of both tokens
    \* ---- services.AuthService over repository.UserRepository ----
    users,      \* the users table: stored email -> user row
    login,      \* the last call of AuthService.Login: inputs and result
    call,       \* the last call of RefreshToken / ValidateAccessToken made
                \* with the tokens of the last Login: inputs and result
    reg,        \* the Register call of each registering client
    \* ---- pure functions of one request ----
    strength,   \* a password and the outcome of its strength validation
    inreq,      \* the addressing headers of a request and its client key
    \* ---- allow calls made one after the other ----
    serial      \* the last allow call and its result, the table a limiter
                \* without cleanup would hold, and the admissions so far

rlvars == <<limit, window, clients, mu, pc, loc, ret, nextTick,
            admitted, calls, touched>>

tokvars == <<gen, cur, vres, sawExpired, again>>

authvars == <<users, login, call, reg>>

fnvars == <<strength, inreq, serial>>

vars == <<now, rlvars, tokvars, authvars, fnvars>>

(***************************************************************************)
(* Client key: middleware.getClientIP.  The X-Forwarded-For header is the  *)
(* list strings.Split(xff, ",") yields, <<>> standing for the empty or     *)
(* absent header; an entry is its text and whether blanks surround it.     *)
(* RemoteAddr is a host and a port, port "" for an address without one.    *)
(***************************************************************************)
MaxEntries == 2      \* entries of a modelled X-Forwarded-For header

Entry(pad, text) == [pad |-> pad, text |-> text]
Entries == {Entry(FALSE, ""), Entry(TRUE, ""), Entry(FALSE, "10.0.0.1"),
            Entry(TRUE, "10.0.0.1"), Entry(FALSE, "10.0.0.2")}

\* the header values: every list of entries but those that spell "" or
\* blanks only, which the HTTP server reads as ""
ForwardedFor ==
    {<<>>} \cup {<<e>> : e \in {x \in Entries : x.text # ""}}
           \cup UNION {[1..n -> Entries] : n \in 2..MaxEntries}
RealIPs == {"", "10.0.0.9"}
Addr(host, port) == [host |-> host, port |-> port]
RemoteAddrs == {Addr("", ""), Addr("192.168.1.1", ""),
                Addr("192.168.1.1", "12345"), Addr("192.168.1.2", "12345")}

HeaderInputs == [xff : ForwardedFor, xri : RealIPs, remote : RemoteAddrs]

\* strings.TrimSpace(ips[0])
TrimSpace(e) == e.text

\* net.SplitHostPort(addr): an address without a port is an error
SplitHostPort(a) ==
    IF a.port = "" THEN [err |-> TRUE, host |-> ""]
    ELSE [err |-> FALSE, host |-> a.host]

\* the text of c.Request.RemoteAddr when it has no port part
RawAddr(a) == a.host

\* getClientIP(c)
getClientIP(h) ==
    IF h.xff # <<>> THEN TrimSpace(h.xff[1])
    ELSE IF h.xri # "" THEN h.xri
    ELSE IF SplitHostPort(h.remote).err THEN RawAddr(h.remote)
    ELSE SplitHostPort(h.remote).host

NoHdr == [req |-> [xff |-> <<>>, xri |-> "", remote |-> Addr("", "")],
          done |-> FALSE, ip |-> ""]

\* Limit: ip := getClientIP(c)
DeriveKey ==
    /\ ~inreq.done
    /\ inreq' = [inreq EXCEPT !.done = TRUE, !.ip = getClientIP(inreq.req)]
    /\ UNCHANGED <<now, rlvars, tokvars, authvars, strength, serial>>

(***************************************************************************)
(* Rate limiter: middleware.RateLimiter                                    *)
(***************************************************************************)
Free == 0                    \* sync.RWMutex not held

\* ip is allow's argument and route the route of the request; late, before
\* and nth are history kept for the properties: whether the call found the
\* record's window elapsed, the budget it found then, and the ordinal of the
\* call within the window; outcome and retry are the response: "rejected"
\* (429) with its Retry-After value, or how the route's handler ended
NoLoc == [ip |-> 1, route |-> "", late |-> FALSE, before |-> 0, nth |-> 0,
          outcome |-> "", retry |-> 0]
NoRet == [allowed |-> FALSE, remaining |-> 0, resetTime |-> 0]

\* client{tokens: rl.limit, lastReset: now}
NewClient_OneExtra(lim, t) == [tokens |-> lim + 1, lastReset |-> t]
NewClient(lim, t) == [tokens |-> lim, lastReset |-> t]

\* rl.mu.Lock() blocks until the mutex is free
LockAvailable_NoWait(m) == TRUE
LockAvailable(m) == m = Free

\* now.Sub(cl.lastReset) > rl.window
WindowExpired_OneLate(t, cl, w) == t - cl.lastReset > w + 1
WindowExpired_AtBoundary(t, cl, w) == t - cl.lastReset >= w
WindowExpired(t, cl, w) == t - cl.lastReset > w

\* cl.tokens > 0
HasBudget_OffByOne(cl) == cl.tokens >= 0
HasBudget(cl) == cl.tokens > 0

\* cl.tokens = rl.limit; cl.lastReset = now
ResetClient_Partial(cl, lim, t) ==
    [tokens |-> IF cl.tokens + 1 > lim THEN lim ELSE cl.tokens + 1, lastReset |-> t]
ResetClient(cl, lim, t) == [tokens |-> lim, lastReset |-> t]

\* the write through the pointer cl, which aliases rl.clients[ip]
StoreClient_AllKeys(cs, k, cl) == [x \in DOMAIN cs |-> cl]
StoreClient(cs, k, cl) == [cs EXCEPT ![k] = cl]

\* now.Sub(cl.lastReset) > rl.window*2
Stale_OneWindow(t, cl, w) == t - cl.lastReset > w
Stale_AnyAge(t, cl, w) == TRUE
Stale(t, cl, w) == t - cl.lastReset > w * 2

\* return false, 0, cl.lastReset.Add(rl.window)
RejectResult_WindowStart(cl, w) ==
    [allowed |-> FALSE, remaining |-> 0, resetTime |-> cl.lastReset]
RejectResult(cl, w) ==
    [allowed |-> FALSE, remaining |-> 0, resetTime |-> cl.lastReset + w]

\* history counters saturate at limit + 1
Bump(n) == IF n > limit THEN n ELSE n + 1

\* setupRouter: the routes, all registered after
\* router.Use(rateLimiter.Limit())
Routes == {"/health", "/ready", "/live", "/metrics",
           "/api/v1/auth/register", "/api/v1/auth/login",
           "/api/v1/auth/refresh", "/api/v1/auth/logout", "/api/v1/auth/me"}

\* whether Limit is in the handler chain of a route: router.Use adds it to
\* the chain of every route registered afterwards
UsesLimit_ApiOnly(r) == r \notin {"/health", "/ready", "/live", "/metrics"}
UsesLimit(r) == r \in Routes

\* time.Until(resetTime).Seconds() printed with %.0f; the rate limiter's
\* clock is in whole seconds
RetryAfter(resetTime, t) == resetTime - t

\* the budget records after the route's handler has ended: Limit returns
\* right after c.Next(), whatever the handler did
Outcomes == {"ok", "failed", "cancelled"}

AfterHandler_Refund(cs, k, outcome) ==
    IF outcome # "ok" /\ k \in DOMAIN cs
    THEN [cs EXCEPT ![k].tokens = @ + 1] ELSE cs
AfterHandler(cs, k, outcome) == cs

\* a request for route r arrives and gin runs the route's handler chain;
\* Limit: ip := getClientIP(c); the call of rl.allow(ip) begins
Request(p, k, r) ==
    /\ pc[p] = "idle"
    /\ pc' = [pc EXCEPT ![p] = IF UsesLimit(r) THEN "lock" ELSE "handler"]
    /\ loc' = [loc EXCEPT ![p] = [NoLoc EXCEPT !.ip = k, !.route = r]]
    /\ UNCHANGED <<now, limit, window, clients, mu, ret, nextTick,
                   admitted, calls, touched>>
    /\ UNCHANGED <<tokvars, authvars, fnvars>>

\* allow: rl.mu.Lock(); now := time.Now(); cl, exists := rl.clients[ip];
\* if !exists { create }; if now.Sub(cl.lastReset) > rl.window { reset }
AllowEnter(p) ==
    /\ pc[p] = "lock"
    /\ LockAvailable(mu)
    /\ mu' = p
    /\ LET k == loc[p].ip
           existed == k \in DOMAIN clients
           cl == IF existed THEN clients[k] ELSE NewClient(limit, now)
           expired == WindowExpired(now, cl, window)
           cl2 == IF expired THEN ResetClient(cl, limit, now) ELSE cl
       IN /\ clients' = IF existed THEN StoreClient(clients, k, cl2)
                                   ELSE clients @@ (k :> cl2)
          /\ loc' = [loc EXCEPT ![p].late = existed /\ now - cl.lastReset > window,
                                ![p].before = IF expired THEN cl.tokens ELSE 0]
          /\ IF expired \/ ~existed
             THEN /\ admitted' = [admitted EXCEPT ![k] = 0]
                  /\ calls' = [calls EXCEPT ![k] = 0]
             ELSE UNCHANGED <<admitted, calls>>
          /\ touched' = [touched EXCEPT ![k] = now]
    /\ pc' = [pc EXCEPT ![p] = "check"]
    /\ UNCHANGED <<now, limit, window, ret, nextTick>>
    /\ UNCHANGED <<tokvars, authvars, fnvars>>

\* allow: if cl.tokens > 0
AllowCheck(p) ==
    /\ pc[p] = "check"
    /\ LET k == loc[p].ip IN
       /\ pc' = [pc EXCEPT ![p] =
                    IF k \in DOMAIN clients /\ HasBudget(clients[k])
                    THEN "dec" ELSE "reject"]
       /\ calls' = [calls EXCEPT ![k] = Bump(calls[k])]
       /\ loc' = [loc EXCEPT ![p].nth = Bump(calls[k])]
    /\ UNCHANGED <<now, limit, window, clients, mu, ret, nextTick,
                   admitted, touched>>
    /\ UNCHANGED <<tokvars, authvars, fnvars>>

\* allow: cl.tokens--; return true, cl.tokens, cl.lastReset.Add(rl.window)
\* (the deferred rl.mu.Unlock() runs at the return)
AllowDec(p) ==
    /\ pc[p] = "dec"
    /\ LET k == loc[p].ip IN
       /\ k \in DOMAIN clients
       /\ LET cl == [clients[k] EXCEPT !.tokens = @ - 1] IN
          /\ clients' = StoreClient(clients, k, cl)
          /\ ret' = [ret EXCEPT ![p] = [allowed |-> TRUE,
                                        remaining |-> cl.tokens,
                                        resetTime |-> cl.lastReset + window]]
       /\ admitted' = [admitted EXCEPT ![k] = Bump(admitted[k])]
    /\ mu' = Free
    /\ pc' = [pc EXCEPT ![p] = "done"]
    /\ UNCHANGED <<now, limit, window, loc, nextTick, calls, touched>>
    /\ UNCHANGED <<tokvars, authvars, fnvars>>

\* allow: return false, 0, cl.lastReset.Add(rl.window)
\* (the deferred rl.mu.Unlock() runs at the return)
AllowReject(p) ==
    /\ pc[p] = "reject"
    /\ LET k == loc[p].ip IN
       /\ k \in DOMAIN clients
       /\ ret' = [ret EXCEPT ![p] = RejectResult(clients[k], window)]
    /\ mu' = Free
    /\ pc' = [pc EXCEPT ![p] = "done"]
    /\ UNCHANGED <<now, limit, window, clients, loc, nextTick,
                   admitted, calls, touched>>
    /\ UNCHANGED <<tokvars, authvars, fnvars>>

\* Limit: the X-RateLimit headers are set from the result; if !allowed,
\* Retry-After and the 429 body are written and c.Abort() ends the chain;
\* else c.Next() runs the route's handler
Respond(p) ==
    /\ pc[p] = "done"
    /\ IF ~ret[p].allowed
       THEN /\ pc' = [pc EXCEPT ![p] = "sent"]
            /\ loc' = [loc EXCEPT ![p] =
                          [NoLoc EXCEPT !.route = loc[p].route,
                                        !.outcome = "rejected",
                                        !.retry = RetryAfter(ret[p].resetTime, now)]]
       ELSE /\ pc' = [pc EXCEPT ![p] = "handler"]
            /\ loc' = [loc EXCEPT ![p] =
                          [NoLoc EXCEPT !.ip = loc[p].ip, !.route = loc[p].route]]
    /\ ret' = [ret EXCEPT ![p] = NoRet]
    /\ UNCHANGED <<now, limit, window, clients, mu, nextTick,
                   admitted, calls, touched>>
    /\ UNCHANGED <<tokvars, authvars, fnvars>>

\* the route's handler runs and ends: it answers ("ok"), fails ("failed")
\* or is cancelled with the request ("cancelled"); Limit returns
Handle(p, outcome) ==
    /\ pc[p] = "handler"
    /\ pc' = [pc EXCEPT ![p] = "sent"]
    /\ loc' = [loc EXCEPT ![p] = [NoLoc EXCEPT !.route = loc[p].route,
                                               !.outcome = outcome]]
    /\ clients' = AfterHandler(clients, loc[p].ip, outcome)
    /\ UNCHANGED <<now, limit, window, mu, ret, nextTick,
                   admitted, calls, touched>>
    /\ UNCHANGED <<tokvars, authvars, fnvars>>

\* the response has been written; the request goroutine ends
Finish(p) ==
    /\ pc[p] = "sent"
    /\ pc' = [pc EXCEPT ![p] = "idle"]
    /\ loc' = [loc EXCEPT ![p] = NoLoc]
    /\ UNCHANGED <<now, limit, window, clients, mu, ret, nextTick,
                   admitted, calls, touched>>
    /\ UNCHANGED <<tokvars, authvars, fnvars>>

\* cleanup: a tick of the window-period ticker arrives; rl.mu.Lock();
\* now := time.Now(); delete every stale client; rl.mu.Unlock()
Cleanup ==
    /\ now >= nextTick
    /\ LockAvailable(mu)
    /\ nextTick' = now + window - ((now - nextTick) % window)
    /\ LET keep == {x \in DOMAIN clients : ~Stale(now, clients[x], window)} IN
       /\ clients' = [k \in keep |-> clients[k]]
       /\ admitted' = [k \in Keys |-> IF k \in keep THEN admitted[k] ELSE 0]
       /\ calls' = [k \in Keys |-> IF k \in keep THEN calls[k] ELSE 0]
       /\ touched' = [k \in Keys |-> IF k \in keep THEN touched[k] ELSE 0]
    /\ UNCHANGED <<now, limit, window, mu, pc, loc, ret>>
    /\ UNCHANGED <<tokvars, authvars, fnvars>>

\* allow(ip) called at time t on the table cs, from rl.mu.Lock() to the
\* deferred rl.mu.Unlock(): the table it leaves and the result it returns
allow_EagerReset(cs, k, lim, w, t) ==
    LET cl == IF k \in DOMAIN cs THEN cs[k] ELSE NewClient(lim, t)
        cl2 == IF t - cl.lastReset >= w THEN ResetClient(cl, lim, t) ELSE cl
        cl3 == IF HasBudget(cl2) THEN [cl2 EXCEPT !.tokens = @ - 1] ELSE cl2
    IN [clients |-> IF k \in DOMAIN cs THEN StoreClient(cs, k, cl3)
                                       ELSE cs @@ (k :> cl3),
        result |-> IF HasBudget(cl2)
                   THEN [allowed |-> TRUE, remaining |-> cl3.tokens,
                         resetTime |-> cl3.lastReset + w]
                   ELSE RejectResult(cl2, w)]
allow(cs, k, lim, w, t) ==
    LET cl == IF k \in DOMAIN cs THEN cs[k] ELSE NewClient(lim, t)
        cl2 == IF WindowExpired(t, cl, w) THEN ResetClient(cl, lim, t) ELSE cl
        cl3 == IF HasBudget(cl2) THEN [cl2 EXCEPT !.tokens = @ - 1] ELSE cl2
    IN [clients |-> IF k \in DOMAIN cs THEN StoreClient(cs, k, cl3)
                                       ELSE cs @@ (k :> cl3),
        result |-> IF HasBudget(cl2)
                   THEN [allowed |-> TRUE, remaining |-> cl3.tokens,
                         resetTime |-> cl3.lastReset + w]
                   ELSE RejectResult(cl2, w)]

\* key and res are the argument and the result of the last allow call;
\* plain is the table of a limiter that is given the same calls and whose
\* cleanup never runs, and pres the result of its last call; swept
\* records whether the last call found its record removed by cleanup;
\* hist counts, for the properties, the requests admitted per key and tick
NoSerial == [key |-> 0, res |-> NoRet, plain |-> <<>>, pres |-> NoRet,
             swept |-> FALSE,
             hist |-> [k \in Keys |-> [t \in Times |-> 0]]]
IdleSerial == serial = NoSerial

\* a request of client k passes through allow while no other request does
Allow(k) ==
    /\ LockAvailable(mu)
    /\ LET a == allow(clients, k, limit, window, now)
           b == allow(serial.plain, k, limit, window, now)
       IN /\ clients' = a.clients
          /\ serial' = [key |-> k, res |-> a.result,
                        plain |-> b.clients, pres |-> b.result,
                        swept |-> k \notin DOMAIN clients
                                     /\ k \in DOMAIN serial.plain,
                        hist |-> IF a.result.allowed
                                 THEN [serial.hist EXCEPT ![k][now] = @ + 1]
                                 ELSE serial.hist]
    /\ UNCHANGED <<now, limit, window, mu, pc, loc, ret, nextTick,
                   admitted, calls, touched>>
    /\ UNCHANGED <<tokvars, authvars, strength, inreq>>

\* the clock advances
Tick ==
    /\ now < MaxTime
    /\ now' = now + 1
    /\ UNCHANGED <<rlvars, tokvars, authvars, fnvars>>


(***************************************************************************)
(* Token engine: utils.generateToken / utils.ValidateToken over            *)
(* github.com/golang-jwt/jwt/v5 (HS256).  In SpecTok one clock tick is     *)
(* 1/TicksPerSecond of a second.                                           *)
(***************************************************************************)
TicksPerSecond == 2
MaxTTL == 2          \* token lifetimes range over -1..MaxTTL ticks

UserIDs == {"", "u1", "u2"}
TokEmails == {"", "a@x", "b@x"}
Secrets == {"", "s1", "s2"}
Classes == {"access", "refresh"}
TTLs == -1..MaxTTL

\* jwt.NewNumericDate(t): t.Truncate(jwt.TimePrecision), a whole second
NumericDate_Exact(t) == t
NumericDate(t) == t - (t % TicksPerSecond)

\* A base64url segment: the bytes it decodes to and its spelling.  alt = 1
\* is a spelling with non-zero trailing bits; jwt's DecodeSegment uses
\* base64.RawURLEncoding without Strict(), which ignores those bits.
Segment(bytes) == [b64 |-> TRUE, bytes |-> bytes, alt |-> 0]
Respell(seg) == [seg EXCEPT !.alt = 1 - @]
NotBase64(seg) == [seg EXCEPT !.b64 = FALSE]

\* the JSON of customClaims
ClaimsJSON(uid, email, typ, exp, iat, nbf) ==
    [json |-> TRUE, uid |-> uid, email |-> email, typ |-> typ,
     exp |-> exp, iat |-> iat, nbf |-> nbf]
NotJSON == [json |-> FALSE, uid |-> "", email |-> "", typ |-> "",
            exp |-> 0, iat |-> 0, nbf |-> 0]

\* SigningMethodHS256: the MAC of the signing string "header.payload" under
\* key; distinct (key, signing string) pairs give distinct MACs
HMAC(key, hdr, pay) == [key |-> key, hdr |-> hdr, pay |-> pay]

EmptyString == [shape |-> "empty", hdr |-> "", pay |-> Segment(NotJSON),
                sig |-> Segment(HMAC("", "", Segment(NotJSON)))]
JWT(hdr, pay, sig) == [shape |-> "jwt", hdr |-> hdr, pay |-> pay, sig |-> sig]

\* token.SignedString(key): header.payload.signature
SignedString(hdr, claims, key) ==
    JWT(hdr, Segment(claims), Segment(HMAC(key, hdr, Segment(claims))))

GenResult(tok, err) == [token |-> tok, err |-> err]

\* generateToken(userID, email, tokenType, expiry, secret), called at time t
generateToken_AnyExpiry(userID, email, tokenType, expiry, secret, t) ==
    IF userID = "" THEN GenResult(EmptyString, "user ID cannot be empty")
    ELSE IF email = "" THEN GenResult(EmptyString, "email cannot be empty")
    ELSE IF secret = "" THEN GenResult(EmptyString, "secret cannot be empty")
    ELSE GenResult(SignedString("HS256",
                       ClaimsJSON(userID, email, tokenType,
                                  NumericDate(t + expiry), NumericDate(t),
                                  NumericDate(t)),
                       secret), "")
generateToken(userID, email, tokenType, expiry, secret, t) ==
    IF userID = "" THEN GenResult(EmptyString, "user ID cannot be empty")
    ELSE IF email = "" THEN GenResult(EmptyString, "email cannot be empty")
    ELSE IF secret = "" THEN GenResult(EmptyString, "secret cannot be empty")
    ELSE IF expiry <= 0 THEN GenResult(EmptyString, "expiry must be positive")
    ELSE GenResult(SignedString("HS256",
                       ClaimsJSON(userID, email, tokenType,
                                  NumericDate(t + expiry), NumericDate(t),
                                  NumericDate(t)),
                       secret), "")

GenerateAccessToken(userID, email, expiry, secret, t) ==
    generateToken(userID, email, "access", expiry, secret, t)

GenerateRefreshToken_AsAccess(userID, email, expiry, secret, t) ==
    generateToken(userID, email, "access", expiry, secret, t)
GenerateRefreshToken(userID, email, expiry, secret, t) ==
    generateToken(userID, email, "refresh", expiry, secret, t)

ParseError(e) == [err |-> e, claims |-> NotJSON]

\* Validator.Validate(claims): exp and nbf against the clock
ValidateClaims(c, t) ==
    IF ~(t < c.exp) THEN "token is expired"
    ELSE IF t < c.nbf THEN "token is not valid yet"
    ELSE ""

\* Method.Verify(signingString, sig, key)
VerifySignature(tok, key) == tok.sig.bytes = HMAC(key, tok.hdr, tok.pay)

\* jwt.ParseWithClaims(tokenString, &customClaims{}, keyFunc) at time t:
\* split and decode, look up the key, verify the signature, then validate
\* the claims
ParseWithClaims_ClaimsFirst(tok, key, t) ==
    IF tok.shape # "jwt" \/ ~tok.pay.b64 \/ ~tok.pay.bytes.json
    THEN ParseError("token is malformed")
    ELSE IF ValidateClaims(tok.pay.bytes, t) # ""
    THEN ParseError(ValidateClaims(tok.pay.bytes, t))
    ELSE IF tok.hdr # "HS256"
    THEN ParseError("token is unverifiable")
    ELSE IF ~tok.sig.b64
    THEN ParseError("token is malformed")
    ELSE IF ~(tok.sig.bytes = HMAC(key, tok.hdr, tok.pay))
    THEN ParseError("token signature is invalid")
    ELSE [err |-> "", claims |-> tok.pay.bytes]
ParseWithClaims(tok, key, t) ==
    IF tok.shape # "jwt" \/ ~tok.pay.b64 \/ ~tok.pay.bytes.json
    THEN ParseError("token is malformed")
    ELSE IF tok.hdr # "HS256"
    THEN ParseError("token is unverifiable")
    ELSE IF ~tok.sig.b64
    THEN ParseError("token is malformed")
    ELSE IF ~VerifySignature(tok, key)
    THEN ParseError("token signature is invalid")
    ELSE IF ValidateClaims(tok.pay.bytes, t) # ""
    THEN ParseError(ValidateClaims(tok.pay.bytes, t))
    ELSE [err |-> "", claims |-> tok.pay.bytes]

NoClaims == [UserID |-> "", Email |-> "", TokenType |-> ""]
Rejected(kind, cause) == [kind |-> kind, cause |-> cause, claims |-> NoClaims]

\* ValidateToken(tokenString, secret), called at time t.  kind is the error
\* ValidateToken returns: "ok" (nil error), "expired" ("token has expired"),
\* "invalid" ("invalid token: <cause>"), "empty_token", "empty_secret"
ValidateToken_Revocable(tokenString, secret, t) ==
    IF tokenString.shape = "empty" THEN Rejected("empty_token", "")
    ELSE IF secret = "" THEN Rejected("empty_secret", "")
    ELSE LET r == ParseWithClaims(tokenString, secret, t) IN
         IF r.err = "token is expired" THEN Rejected("expired", "")
         ELSE IF r.err # "" THEN Rejected("invalid", r.err)
         ELSE IF call.out THEN Rejected("invalid", "token is revoked")
         ELSE [kind |-> "ok", cause |-> "",
               claims |-> [UserID |-> r.claims.uid, Email |-> r.claims.email,
                           TokenType |-> r.claims.typ]]
ValidateToken(tokenString, secret, t) ==
    IF tokenString.shape = "empty" THEN Rejected("empty_token", "")
    ELSE IF secret = "" THEN Rejected("empty_secret", "")
    ELSE LET r == ParseWithClaims(tokenString, secret, t) IN
         IF r.err = "token is expired" THEN Rejected("expired", "")
         ELSE IF r.err # "" THEN Rejected("invalid", r.err)
         ELSE [kind |-> "ok", cause |-> "",
               claims |-> [UserID |-> r.claims.uid, Email |-> r.claims.email,
                           TokenType |-> r.claims.typ]]

NoGen == [done |-> FALSE, uid |-> "", email |-> "", class |-> "access",
          ttl |-> 0, secret |-> "", at |-> 0, res |-> GenResult(EmptyString, "")]
\* presented records which token string the call was given: "empty", the
\* issued token ("issued"), or the issued token with its "payload" or its
\* "signature" segment changed
NoVal == [done |-> FALSE, presented |-> "empty", secret |-> "", at |-> 0,
          res |-> Rejected("", "")]

Issued == gen.done /\ gen.res.err = ""

\* GenerateAccessToken / GenerateRefreshToken is called; its result is the
\* one followed from then on
Issue(uid, email, class, ttl, secret) ==
    /\ ~gen.done
    /\ LET r == IF class = "access"
                THEN GenerateAccessToken(uid, email, ttl, secret, now)
                ELSE GenerateRefreshToken(uid, email, ttl, secret, now)
       IN /\ gen' = [done |-> TRUE, uid |-> uid, email |-> email,
                     class |-> class, ttl |-> ttl, secret |-> secret,
                     at |-> now, res |-> r]
          /\ cur' = r.token
    /\ UNCHANGED <<now, rlvars, vres, sawExpired, again, authvars, fnvars>>

\* the payload segments an attacker can put in place of the issued one
OtherPayloads(tok) ==
    LET c == tok.pay.bytes IN
    { Respell(tok.pay), NotBase64(tok.pay), Segment(NotJSON),
      Segment([c EXCEPT !.uid = IF @ = "u1" THEN "u2" ELSE "u1"]),
      Segment([c EXCEPT !.email = IF @ = "a@x" THEN "b@x" ELSE "a@x"]),
      Segment([c EXCEPT !.typ = IF @ = "access" THEN "refresh" ELSE "access"]),
      Segment([c EXCEPT !.exp = @ + TicksPerSecond]) }

\* the signature segments an attacker can put in place of the issued one
OtherSignatures(tok) ==
    { Respell(tok.sig), NotBase64(tok.sig),
      Segment(HMAC("s1", tok.hdr, Segment(NotJSON))),
      Segment(HMAC("s2", tok.hdr, Segment(NotJSON))),
      Segment(HMAC(IF tok.sig.bytes.key = "s1" THEN "s2" ELSE "s1",
                   tok.hdr, tok.pay)) }

\* the presented token is the issued one with its payload segment changed
TamperPayload ==
    /\ Issued /\ cur = gen.res.token
    /\ \E seg \in OtherPayloads(cur) : cur' = [cur EXCEPT !.pay = seg]
    /\ UNCHANGED <<now, rlvars, gen, vres, sawExpired, again, authvars, fnvars>>

\* the presented token is the issued one with its signature segment changed
TamperSignature ==
    /\ Issued /\ cur = gen.res.token
    /\ \E seg \in OtherSignatures(cur) : cur' = [cur EXCEPT !.sig = seg]
    /\ UNCHANGED <<now, rlvars, gen, vres, sawExpired, again, authvars, fnvars>>

\* the issued token is presented again
PresentIssued ==
    /\ Issued /\ cur # gen.res.token
    /\ cur' = gen.res.token
    /\ UNCHANGED <<now, rlvars, gen, vres, sawExpired, again, authvars, fnvars>>

Presented ==
    IF ~Issued THEN "empty"
    ELSE IF cur = gen.res.token THEN "issued"
    ELSE IF cur.pay # gen.res.token.pay THEN "payload"
    ELSE "signature"

\* ValidateToken(cur, secret) is called
Validate(secret) ==
    /\ LET r == ValidateToken(cur, secret, now) IN
       /\ vres' = [done |-> TRUE, presented |-> Presented, secret |-> secret,
                   at |-> now, res |-> r]
       /\ sawExpired' = (sawExpired \/
              (Issued /\ cur = gen.res.token /\ secret = gen.secret
                      /\ r.kind = "expired"))
    /\ UNCHANGED <<now, rlvars, gen, cur, again, authvars, fnvars>>

\* TestTokenSecurity, "different tokens for same user": the generator is
\* called a second time with the same arguments, then both tokens are
\* validated under the signing secret
NoAgain == [done |-> FALSE, at |-> 0, res |-> GenResult(EmptyString, ""),
            checked |-> FALSE, first |-> Rejected("", ""),
            second |-> Rejected("", "")]

\* the second call of GenerateAccessToken / GenerateRefreshToken, made at
\* a later reading of the clock than the first
IssueAgain ==
    /\ Issued /\ ~again.done
    /\ now > gen.at
    /\ again' = [again EXCEPT
                    !.done = TRUE, !.at = now,
                    !.res = IF gen.class = "access"
                            THEN GenerateAccessToken(gen.uid, gen.email,
                                                     gen.ttl, gen.secret, now)
                            ELSE GenerateRefreshToken(gen.uid, gen.email,
                                                      gen.ttl, gen.secret, now)]
    /\ UNCHANGED <<now, rlvars, gen, cur, vres, sawExpired, authvars, fnvars>>

\* ValidateToken(token1, secret); ValidateToken(token2, secret)
ValidateBoth ==
    /\ again.done /\ ~again.checked
    /\ again' = [again EXCEPT
                    !.checked = TRUE,
                    !.first = ValidateToken(gen.res.token, gen.secret, now),
                    !.second = ValidateToken(again.res.token, gen.secret, now)]
    /\ UNCHANGED <<now, rlvars, gen, cur, vres, sawExpired, authvars, fnvars>>

IdleTok ==
    /\ gen = NoGen
    /\ cur = EmptyString
    /\ vres = NoVal
    /\ sawExpired = FALSE
    /\ again = NoAgain

IdleRL ==
    /\ limit = 1
    /\ window = 1
    /\ clients = <<>>
    /\ mu = Free
    /\ pc = [p \in Procs |-> "idle"]
    /\ loc = [p \in Procs |-> NoLoc]
    /\ ret = [p \in Procs |-> NoRet]
    /\ nextTick = 1
    /\ admitted = [k \in Keys |-> 0]
    /\ calls = [k \in Keys |-> 0]
    /\ touched = [k \in Keys |-> 0]

IdleHdr == inreq = NoHdr

(***************************************************************************)
(* Password strength: utils.ValidatePasswordStrength and                   *)
(* AuthService.validatePassword.  A password is the sequence of its        *)
(* characters; the modelled characters are ASCII, one byte each.           *)
(***************************************************************************)
MaxChunks == 3       \* a modelled password is made of at most MaxChunks pieces

MinPasswordLen == 8
MaxPasswordLen == 72

UpperLetters ==
    <<"A", "B", "C", "D", "E", "F", "G", "H", "I", "J", "K", "L", "M", "N",
      "O", "P", "Q", "R", "S", "T", "U", "V", "W", "X", "Y", "Z">>
LowerLetters ==
    <<"a", "b", "c", "d", "e", "f", "g", "h", "i", "j", "k", "l", "m", "n",
      "o", "p", "q", "r", "s", "t", "u", "v", "w", "x", "y", "z">>
Digits == {"0", "1", "2", "3", "4", "5", "6", "7", "8", "9"}

Range(s) == {s[i] : i \in DOMAIN s}

\* specialChars := "!@#$%^&*()_+-=[]{}|;:,.<>?"
specialChars ==
  { "!", "@", "#", "$", "%", "^", "&", "*", "(", ")", "_", "+", "-", "=",
    "[", "]", "{", "}", "|", ";", ":", ",", ".", "<", ">", "?" }

\* the character class of hasSpecial in AuthService.validatePassword
specialClass ==
  { "!", "@", "#", "$", "%", "^", "&", "*", "(", ")", "_", "+", "-", "=",
    "[", "]", "{", "}", ";", "'", ":", "\"", "\\", "|", ",", ".", "<", ">",
    "/", "?" }

\* strings.ToLower on ASCII text
ToLowerChar(c) ==
    IF \E i \in DOMAIN UpperLetters : UpperLetters[i] = c
    THEN LowerLetters[CHOOSE i \in DOMAIN UpperLetters : UpperLetters[i] = c]
    ELSE c
ToLower(s) == [i \in DOMAIN s |-> ToLowerChar(s[i])]

\* var commonPasswords of package utils
utils_commonPasswords ==
    { <<"p", "a", "s", "s", "w", "o", "r", "d">>,
      <<"p", "a", "s", "s", "w", "o", "r", "d", "1", "2", "3">>,
      <<"1", "2", "3", "4", "5", "6">>,
      <<"1", "2", "3", "4", "5", "6", "7", "8">>,
      <<"q", "w", "e", "r", "t", "y">>,
      <<"q", "w", "e", "r", "t", "y", "1", "2", "3">>,
      <<"a", "b", "c", "1", "2", "3">>,
      <<"m", "o", "n", "k", "e", "y">>,
      <<"l", "e", "t", "m", "e", "i", "n">>,
      <<"w", "e", "l", "c", "o", "m", "e">>,
      <<"a", "d", "m", "i", "n">>,
      <<"a", "d", "m", "i", "n", "1", "2", "3">> }

\* var commonPasswords of package services
services_commonPasswords ==
    { <<"p", "a", "s", "s", "w", "o", "r", "d">>,
      <<"p", "a", "s", "s", "w", "o", "r", "d", "1", "2", "3">>,
      <<"1", "2", "3", "4", "5", "6", "7", "8">>,
      <<"q", "w", "e", "r", "t", "y">>,
      <<"a", "b", "c", "1", "2", "3">>,
      <<"p", "a", "s", "s", "w", "o", "r", "d", "1">>,
      <<"p", "a", "s", "s", "w", "o", "r", "d", "1", "2", "3", "!">>,
      <<"w", "e", "l", "c", "o", "m", "e">>,
      <<"w", "e", "l", "c", "o", "m", "e", "1", "2", "3">>,
      <<"a", "d", "m", "i", "n">>,
      <<"a", "d", "m", "i", "n", "1", "2", "3">>,
      <<"l", "e", "t", "m", "e", "i", "n">>,
      <<"m", "o", "n", "k", "e", "y">>,
      <<"1", "2", "3", "4", "5", "6", "7", "8", "9", "0">> }

\* utils.ValidatePasswordStrength(password): the error text, "" for nil
ValidatePasswordStrength_LowerFirst(password) ==
    IF Len(password) < MinPasswordLen
    THEN "password must be at least 8 characters long"
    ELSE IF Len(password) > MaxPasswordLen
    THEN "password too long: maximum 72 bytes"
    ELSE IF Range(password) \cap Range(LowerLetters) = {}
    THEN "password must contain at least one lowercase letter"
    ELSE IF Range(password) \cap Range(UpperLetters) = {}
    THEN "password must contain at least one uppercase letter"
    ELSE IF Range(password) \cap Digits = {}
    THEN "password must contain at least one number"
    ELSE IF Range(password) \cap specialChars = {}
    THEN "password must contain at least one special character"
    ELSE IF ToLower(password) \in utils_commonPasswords
    THEN "password is too common, please choose a more unique password"
    ELSE ""
ValidatePasswordStrength(password) ==
    IF Len(password) < MinPasswordLen
    THEN "password must be at least 8 characters long"
    ELSE IF Len(password) > MaxPasswordLen
    THEN "password too long: maximum 72 bytes"
    ELSE IF Range(password) \cap Range(UpperLetters) = {}
    THEN "password must contain at least one uppercase letter"
    ELSE IF Range(password) \cap Range(LowerLetters) = {}
    THEN "password must contain at least one lowercase letter"
    ELSE IF Range(password) \cap Digits = {}
    THEN "password must contain at least one number"
    ELSE IF Range(password) \cap specialChars = {}
    THEN "password must contain at least one special character"
    ELSE IF ToLower(password) \in utils_commonPasswords
    THEN "password is too common, please choose a more unique password"
    ELSE ""

\* the pieces the modelled passwords are made of
Pad == [i \in 1..66 |-> "x"]
Chunks ==
    { <<"P", "a", "s", "s", "w", "o", "r", "d">>,
      <<"p", "a", "s", "s", "w", "o", "r", "d">>,
      <<"S", "E", "C", "U", "R", "E">>,
      <<"Q", "w", "e", "r", "t", "y">>,
      <<"1", "2", "3">>,
      <<"1", "2", "3", "4", "5">>,
      <<"!">>,
      <<"/">>,
      Pad }

RECURSIVE Texts(_)
Texts(n) ==
    IF n = 0 THEN {<<>>}
    ELSE Texts(n - 1) \cup {t \o c : t \in Texts(n - 1), c \in Chunks}

PasswordInputs == Texts(MaxChunks)

\* by is "" before the validation, then "utils", "services" or "both"; err
\* is the error text of the validator called, and svc the one of
\* AuthService.validatePassword when both were called
NoPw == [password |-> <<>>, by |-> "", err |-> "", svc |-> ""]
IdlePw == strength = NoPw

\* utils.ValidatePasswordStrength(strength.password) is called
CheckStrength ==
    /\ strength.by = ""
    /\ strength' = [strength EXCEPT !.by = "utils",
                                    !.err = ValidatePasswordStrength(strength.password)]
    /\ UNCHANGED <<now, rlvars, tokvars, authvars, inreq, serial>>

(***************************************************************************)
(* Credential service: services.AuthService                                *)
(***************************************************************************)
JWTSecret == "s1"            \* AuthService.jwtSecret (config.JWTSecret)
AccessTokenDuration == 2     \* AuthService.accessTokenDuration, in ticks
RefreshTokenDuration == 4    \* AuthService.refreshTokenDuration, in ticks
NumRegs == 2                 \* clients that call Register concurrently

Regs == 1..NumRegs

StoredEmails == {"a@x", "b@x"}
LoginEmails == {"", "a@x", " A@X ", "b@x"}
Pw1 == <<"S", "e", "c", "u", "r", "e", "1", "2", "3", "!">>
Pw2 == <<"W", "r", "o", "n", "g", "P", "a", "s", "s", "1", "!">>
PwWeak == <<"w", "e", "a", "k">>
Passwords == {<<>>, Pw1, Pw2}
\* Register is called with an email in its stored spelling or in another
\* spelling of it, and with a password that fails the strength rules
\* ("weak") or passes them
RegEmails == {"a@x", " A@X "}
RegPasswords == {PwWeak, Pw2}

\* strings.ToLower(strings.TrimSpace(email))
NormalizeEmail_AsGiven(e) == e
NormalizeEmail(e) == IF e = " A@X " THEN "a@x" ELSE e

\* the uuid of the row stored under an email
UserIDOf(e) == IF e = "a@x" THEN "u1" ELSE "u2"

\* uuid.Parse(s) succeeds
IsUUID(s) == s \in {"u1", "u2"}

\* bcrypt.GenerateFromPassword: the digest binds the password and a salt
Bcrypt(pw, salt) == [pw |-> pw, salt |-> salt]

\* utils.ComparePasswords(hashedPassword, password): nil iff it matches
ComparePasswords_AlwaysMatch(hash, pw) == TRUE
ComparePasswords(hash, pw) == hash.pw = pw

UserRow(e, pw, active) ==
    [ID |-> UserIDOf(e), Email |-> e, PasswordHash |-> Bcrypt(pw, "salt"),
     IsActive |-> active, KYCStatus |-> "verified"]
NoUser == [ID |-> "", Email |-> "", PasswordHash |-> Bcrypt(<<>>, ""),
           IsActive |-> FALSE, KYCStatus |-> ""]
\* user.PasswordHash = ""
Sanitized_KeepHash(u) == u
Sanitized(u) == [u EXCEPT !.PasswordHash = Bcrypt(<<>>, "")]

\* appErrors.NewBadRequest / NewUnauthorized / NewForbidden
NoError == [err |-> "", message |-> "", status |-> 0]
NewBadRequest(msg) == [err |-> "invalid input", message |-> msg, status |-> 400]
NewUnauthorized(msg) == [err |-> "unauthorized", message |-> msg, status |-> 401]
NewForbidden_AsUnauthorized(msg) == [err |-> "unauthorized", message |-> msg, status |-> 401]
NewForbidden(msg) == [err |-> "user account is inactive", message |-> msg, status |-> 403]
\* appErrors.NewNotFound / NewConflict
NewNotFound(msg) == [err |-> "user not found", message |-> msg, status |-> 404]
NewConflict(msg) == [err |-> "user already exists", message |-> msg, status |-> 409]
\* fmt.Errorf(...): a plain error, answered as an internal error
PlainError(msg) == [err |-> "internal", message |-> msg, status |-> 500]

\* fmt.Errorf("<msg>: %w", e) as the callers see it: errors.Is and
\* errors.As (GetAppError, handleError) look through the wrapping, so an
\* AppError keeps its kind, message and status; a plain error stays plain
WrapError(msg, e) == IF e.err = "internal" THEN PlainError(msg) ELSE e

\* userRepository.GetByEmail(ctx, email): the row, NotFound, or, when the
\* database call fails (dbOk = FALSE), another error
GetByEmail(tbl, email, dbOk) ==
    IF ~dbOk THEN [err |-> "failed to get user by email", user |-> NoUser]
    ELSE IF email \in DOMAIN tbl THEN [err |-> "", user |-> tbl[email]]
    ELSE [err |-> "user not found", user |-> NoUser]

\* userRepository.GetByID(ctx, id)
GetByID_AnyRow(tbl, id, dbOk) ==
    IF ~dbOk THEN [err |-> "failed to get user by ID", user |-> NoUser]
    ELSE IF DOMAIN tbl # {}
    THEN [err |-> "", user |-> tbl[CHOOSE e \in DOMAIN tbl : TRUE]]
    ELSE [err |-> "user not found", user |-> NoUser]
GetByID(tbl, id, dbOk) ==
    IF ~dbOk THEN [err |-> "failed to get user by ID", user |-> NoUser]
    ELSE IF \E e \in DOMAIN tbl : tbl[e].ID = id
    THEN [err |-> "", user |-> tbl[CHOOSE e \in DOMAIN tbl : tbl[e].ID = id]]
    ELSE [err |-> "user not found", user |-> NoUser]

\* userRepository.Create(ctx, user): the INSERT into users, whose email
\* column is UNIQUE (SQLSTATE 23505 on a duplicate); the phone numbers of
\* the modelled requests differ from every stored one
Create_NoUniqueIndex(tbl, user, dbOk) ==
    LET row == [user EXCEPT !.ID = UserIDOf(user.Email), !.IsActive = TRUE,
                            !.KYCStatus = "pending"]
    IN IF ~dbOk
       THEN [err |-> PlainError("failed to create user"), tbl |-> tbl, user |-> row]
       ELSE [err |-> NoError,
             tbl |-> [x \in DOMAIN tbl \cup {row.Email} |->
                         IF x = row.Email THEN row ELSE tbl[x]],
             user |-> row]
Create(tbl, user, dbOk) ==
    LET row == [user EXCEPT !.ID = UserIDOf(user.Email), !.IsActive = TRUE,
                            !.KYCStatus = "pending"]
    IN IF ~dbOk
       THEN [err |-> PlainError("failed to create user"), tbl |-> tbl, user |-> row]
       ELSE IF row.Email \in DOMAIN tbl
       THEN [err |-> NewConflict("user with this email or phone already exists"),
             tbl |-> tbl, user |-> row]
       ELSE [err |-> NoError, tbl |-> tbl @@ (row.Email :> row), user |-> row]

LoginFailure(e) == [error |-> e, AccessToken |-> EmptyString,
                    RefreshToken |-> EmptyString, User |-> NoUser]

\* AuthService.Login(ctx, email, password), called at time t
Login(tbl, email, password, dbOk, t) ==
    IF email = "" THEN LoginFailure(NewBadRequest("email is required"))
    ELSE IF password = <<>> THEN LoginFailure(NewBadRequest("password is required"))
    ELSE LET got == GetByEmail(tbl, NormalizeEmail(email), dbOk)
             user == got.user
             access == GenerateAccessToken(user.ID, user.Email,
                           AccessTokenDuration, JWTSecret, t)
             refresh == GenerateRefreshToken(user.ID, user.Email,
                           RefreshTokenDuration, JWTSecret, t)
         IN IF got.err # ""
            THEN LoginFailure(NewUnauthorized("invalid email or password"))
            ELSE IF ~user.IsActive
            THEN LoginFailure(NewForbidden("account is inactive"))
            ELSE IF ~ComparePasswords(user.PasswordHash, password)
            THEN LoginFailure(NewUnauthorized("invalid email or password"))
            ELSE IF access.err # ""
            THEN LoginFailure(PlainError("failed to generate access token"))
            ELSE IF refresh.err # ""
            THEN LoginFailure(PlainError("failed to generate refresh token"))
            ELSE [error |-> NoError, AccessToken |-> access.token,
                  RefreshToken |-> refresh.token, User |-> Sanitized(user)]

\* models.RefreshTokenResponse; NilResponse stands for a nil pointer
NilResponse == [AccessToken |-> EmptyString, TokenType |-> "", ExpiresIn |-> 0]
RefreshTokenResponse_Rotating(tok) ==
    [AccessToken |-> tok, RefreshToken |-> tok, TokenType |-> "Bearer",
     ExpiresIn |-> AccessTokenDuration \div TicksPerSecond]
RefreshTokenResponse(tok) ==
    [AccessToken |-> tok, TokenType |-> "Bearer",
     ExpiresIn |-> AccessTokenDuration \div TicksPerSecond]

\* what RefreshToken and ValidateAccessToken return: the error, the
\* response (RefreshToken) or the user (ValidateAccessToken); reads counts
\* the calls they made to the store
TokenFailure(e, reads) ==
    [error |-> e, resp |-> NilResponse, User |-> NoUser, reads |-> reads]

\* claims.Type != "refresh" / claims.Type != "access"
WrongClass_Ignored(claims, class) == FALSE
WrongClass(claims, class) == claims.TokenType # class

\* !user.IsActive
Disabled_Ignored(user) == FALSE
Disabled(user) == ~user.IsActive

\* AuthService.RefreshToken(ctx, refreshToken), called at time t
RefreshToken(tbl, refreshToken, dbOk, t) ==
    IF refreshToken.shape = "empty"
    THEN TokenFailure(NewBadRequest("refresh token is required"), 0)
    ELSE LET v == ValidateToken(refreshToken, JWTSecret, t)
             got == GetByID(tbl, v.claims.UserID, dbOk)
             user == got.user
             access == GenerateAccessToken(user.ID, user.Email,
                           AccessTokenDuration, JWTSecret, t)
         IN IF v.kind # "ok"
            THEN TokenFailure(NewUnauthorized("invalid or expired refresh token"), 0)
            ELSE IF WrongClass(v.claims, "refresh")
            THEN TokenFailure(NewUnauthorized("invalid token type"), 0)
            ELSE IF ~IsUUID(v.claims.UserID)
            THEN TokenFailure(NewUnauthorized("invalid user ID in token"), 0)
            ELSE IF got.err # ""
            THEN TokenFailure(NewNotFound("user not found"), 1)
            ELSE IF Disabled(user)
            THEN TokenFailure(NewForbidden("account is inactive"), 1)
            ELSE IF access.err # ""
            THEN TokenFailure(PlainError("failed to generate access token"), 1)
            ELSE [error |-> NoError, resp |-> RefreshTokenResponse(access.token),
                  User |-> NoUser, reads |-> 1]

\* AuthService.ValidateAccessToken(ctx, accessToken), called at time t
ValidateAccessToken(tbl, accessToken, dbOk, t) ==
    IF accessToken.shape = "empty"
    THEN TokenFailure(NewBadRequest("access token is required"), 0)
    ELSE LET v == ValidateToken(accessToken, JWTSecret, t)
             got == GetByID(tbl, v.claims.UserID, dbOk)
             user == got.user
         IN IF v.kind # "ok"
            THEN TokenFailure(NewUnauthorized("invalid or expired access token"), 0)
            ELSE IF WrongClass(v.claims, "access")
            THEN TokenFailure(NewUnauthorized("invalid token type"), 0)
            ELSE IF ~IsUUID(v.claims.UserID)
            THEN TokenFailure(NewUnauthorized("invalid user ID in token"), 0)
            ELSE IF got.err # ""
            THEN TokenFailure(NewNotFound("user not found"), 1)
            ELSE IF Disabled(user)
            THEN TokenFailure(NewForbidden("account is inactive"), 1)
            ELSE [error |-> NoError, resp |-> NilResponse,
                  User |-> Sanitized(user), reads |-> 1]

\* a calendar date: what Year(), Month() and Day() of a time.Time give
Date(y, m, d) == [Year |-> y, Month |-> m, Day |-> d]

\* time.Time{}, the value IsZero() recognises: 1 January of year 1
ZeroDate == Date(1, 1, 1)

\* the Gregorian calendar of package time
IsLeap(y) == y % 4 = 0 /\ (y % 100 # 0 \/ y % 400 = 0)
DaysIn(y, m) ==
    IF m = 2 THEN (IF IsLeap(y) THEN 29 ELSE 28)
    ELSE IF m \in {4, 6, 9, 11} THEN 30 ELSE 31
RECURSIVE DaysBefore(_, _)
DaysBefore(y, m) ==
    IF m = 1 THEN 0 ELSE DaysBefore(y, m - 1) + DaysIn(y, m - 1)

\* Time.YearDay(): the day of the year, 1 for 1 January
YearDay(dt) == DaysBefore(dt.Year, dt.Month) + dt.Day

\* the age Register asks for
AdultAge == 18

\* the date of birth of the requests whose age is not in question, and
\* the day on which they are made
LongAgo == Date(1990, 1, 1)
RegToday == Date(2024, 6, 15)

\* models.RegisterRequest
ValidRequest ==
    [Email |-> "a@x", Phone |-> "+447700900000", Password |-> Pw2,
     FirstName |-> "John", LastName |-> "Doe", DateOfBirth |-> LongAgo,
     AddressLine1 |-> "1 High Street", City |-> "London",
     Postcode |-> "SW1A 1AA", Country |-> "GB"]

\* a request with an email and a password; its other required fields are
\* present and its date of birth is long ago
RegisterRequest(email, password) ==
    [ValidRequest EXCEPT !.Email = email, !.Password = password]

\* validateRegistrationRequest(req), called on the day today
validateRegistrationRequest(req, today) ==
    LET age == today.Year - req.DateOfBirth.Year
        precise == IF YearDay(today) < YearDay(req.DateOfBirth)
                   THEN age - 1 ELSE age
    IN
    IF req.Email = "" THEN NewBadRequest("email is required")
    ELSE IF req.Password = <<>> THEN NewBadRequest("password is required")
    ELSE IF req.FirstName = "" THEN NewBadRequest("first name is required")
    ELSE IF req.LastName = "" THEN NewBadRequest("last name is required")
    ELSE IF req.DateOfBirth = ZeroDate
    THEN NewBadRequest("date of birth is required")
    ELSE IF req.AddressLine1 = ""
    THEN NewBadRequest("address line 1 is required")
    ELSE IF req.City = "" THEN NewBadRequest("city is required")
    ELSE IF req.Postcode = "" THEN NewBadRequest("postcode is required")
    ELSE IF req.Country = "" THEN NewBadRequest("country is required")
    ELSE IF age < AdultAge
    THEN NewBadRequest("you must be at least 18 years old to register")
    ELSE IF precise < AdultAge
    THEN NewBadRequest("you must be at least 18 years old to register")
    ELSE NoError

\* mail.ParseAddress(email) succeeds, on the modelled emails
ParsesAsAddress(email) == email # "not-an-email"

\* validateEmail(email): the modelled emails are shorter than 254 bytes
\* and the well-formed ones hold no space once trimmed
validateEmail(email) ==
    IF NormalizeEmail(email) = "" THEN NewBadRequest("email cannot be empty")
    ELSE IF ~ParsesAsAddress(NormalizeEmail(email))
    THEN NewBadRequest("invalid email format")
    ELSE NoError

\* validatePassword(password)
validatePassword(password) ==
    IF Len(password) < MinPasswordLen
    THEN NewBadRequest("password must be at least 8 characters long")
    ELSE IF Len(password) > MaxPasswordLen
    THEN NewBadRequest("password too long: maximum 72 characters")
    ELSE IF Range(password) \cap Range(UpperLetters) = {}
    THEN NewBadRequest("password must contain at least one uppercase letter")
    ELSE IF Range(password) \cap Range(LowerLetters) = {}
    THEN NewBadRequest("password must contain at least one lowercase letter")
    ELSE IF Range(password) \cap Digits = {}
    THEN NewBadRequest("password must contain at least one number")
    ELSE IF Range(password) \cap specialClass = {}
    THEN NewBadRequest("password must contain at least one special character")
    ELSE IF ToLower(password) \in services_commonPasswords
    THEN NewBadRequest("password is too common, please choose a stronger password")
    ELSE NoError

\* s.validatePassword(strength.password) is called
CheckRegistrationPassword ==
    /\ strength.by = ""
    /\ strength' = [strength EXCEPT !.by = "services",
                                    !.err = validatePassword(strength.password).message]
    /\ UNCHANGED <<now, rlvars, tokvars, authvars, inreq, serial>>

\* both validators are called on strength.password
CheckBothValidators ==
    /\ strength.by = ""
    /\ strength' = [strength EXCEPT
                       !.by = "both",
                       !.err = ValidatePasswordStrength(strength.password),
                       !.svc = validatePassword(strength.password).message]
    /\ UNCHANGED <<now, rlvars, tokvars, authvars, inreq, serial>>

\* Register, lines 61-74: the first validation that fails
ValidateRegistration_PasswordUnchecked(req, today) ==
    IF validateRegistrationRequest(req, today) # NoError
    THEN validateRegistrationRequest(req, today)
    ELSE validateEmail(req.Email)
ValidateRegistration(req, today) ==
    IF validateRegistrationRequest(req, today) # NoError
    THEN validateRegistrationRequest(req, today)
    ELSE IF validateEmail(req.Email) # NoError THEN validateEmail(req.Email)
    ELSE validatePassword(req.Password)

\* Register, lines 88-107: the user model handed to the store
NewUser(req) ==
    [ID |-> UserIDOf(NormalizeEmail(req.Email)),
     Email |-> NormalizeEmail(req.Email),
     PasswordHash |-> Bcrypt(req.Password, "salt"),
     IsActive |-> TRUE, KYCStatus |-> "pending"]

RegisterResult(e, u) == [error |-> e, User |-> u]

\* existed, active and correct record, for the properties, what the table
\* held when Login was called
NoLogin == [done |-> FALSE, email |-> "", password |-> <<>>, existed |-> FALSE,
            active |-> FALSE, correct |-> FALSE, dbOk |-> TRUE,
            res |-> LoginFailure(NoError)]

\* op is "refresh", "validate" or "logout"; presented names the token
\* string given to the call; live, active, n and out record, for the
\* properties, whether the presented token was unexpired and its subject's
\* account active when the call was made, how many RefreshToken calls with
\* the refresh token of the last Login have succeeded (counted up to
\* MaxRefreshes), and whether Logout was called since the last Login
MaxRefreshes == 2
NoCall == [done |-> FALSE, op |-> "", presented |-> "empty", dbOk |-> TRUE,
           at |-> 0, live |-> FALSE, active |-> FALSE, n |-> 0,
           out |-> FALSE, res |-> TokenFailure(NoError, 0)]

\* pc is "idle" or "create" (between the existence check and the insert);
\* today is the day of the call; existed, read, missed, hashed, created and
\* dbOk record, for the properties, whether the table held the normalized
\* email when Register was called, whether GetByEmail was called, whether
\* it answered NotFound, whether HashPassword and Create were called, and
\* whether the database executed the insert
NoReg == [pc |-> "idle", done |-> FALSE, req |-> RegisterRequest("", <<>>),
          today |-> RegToday, existed |-> FALSE, read |-> FALSE,
          missed |-> FALSE, hashed |-> FALSE, created |-> FALSE,
          dbOk |-> TRUE, res |-> RegisterResult(NoError, NoUser)]

LoggedIn == login.done /\ login.res.error = NoError

\* the token strings a client can present
Presentable == {"empty", "access", "refresh", "forged"}

\* a token for u1 signed with a key that is not the service's
ForgedToken(class, t) ==
    generateToken("u1", "a@x", class, RefreshTokenDuration, "s2", t).token

TokenOf(presented, class, t) ==
    IF presented = "access" THEN login.res.AccessToken
    ELSE IF presented = "refresh" THEN login.res.RefreshToken
    ELSE IF presented = "forged" THEN ForgedToken(class, t)
    ELSE EmptyString

\* the presented token's exp claim is still ahead
Live(tok, t) == tok.shape = "jwt" /\ t < tok.pay.bytes.exp

\* the account the last Login was for is active in the store
SubjectActive ==
    /\ LoggedIn
    /\ login.res.User.Email \in DOMAIN users
    /\ users[login.res.User.Email].IsActive

\* a client calls AuthService.Login
DoLogin(email, password, dbOk) ==
    /\ LET e == NormalizeEmail(email) IN
       login' = [done |-> TRUE, email |-> email, password |-> password,
                 existed |-> e \in DOMAIN users,
                 active |-> e \in DOMAIN users /\ users[e].IsActive,
                 correct |-> e \in DOMAIN users /\ users[e].PasswordHash.pw = password,
                 dbOk |-> dbOk,
                 res |-> Login(users, email, password, dbOk, now)]
    /\ call' = NoCall
    /\ UNCHANGED <<now, rlvars, tokvars, fnvars, users, reg>>

\* a client calls AuthService.RefreshToken
DoRefresh(presented, dbOk) ==
    /\ presented \in {"access", "refresh"} => LoggedIn
    /\ LET tok == TokenOf(presented, "refresh", now)
           r == RefreshToken(users, tok, dbOk, now)
       IN call' = [done |-> TRUE, op |-> "refresh", presented |-> presented,
                   dbOk |-> dbOk, at |-> now, live |-> Live(tok, now),
                   active |-> SubjectActive,
                   n |-> IF presented = "refresh" /\ r.error = NoError
                              /\ call.n < MaxRefreshes
                         THEN call.n + 1 ELSE call.n,
                   out |-> call.out, res |-> r]
    /\ UNCHANGED <<now, rlvars, tokvars, fnvars, users, login, reg>>

\* a client calls AuthService.ValidateAccessToken (GET /auth/me)
DoValidateAccess(presented, dbOk) ==
    /\ presented \in {"access", "refresh"} => LoggedIn
    /\ LET tok == TokenOf(presented, "access", now)
           r == ValidateAccessToken(users, tok, dbOk, now)
       IN call' = [done |-> TRUE, op |-> "validate", presented |-> presented,
                   dbOk |-> dbOk, at |-> now, live |-> Live(tok, now),
                   active |-> SubjectActive, n |-> call.n,
                   out |-> call.out, res |-> r]
    /\ UNCHANGED <<now, rlvars, tokvars, fnvars, users, login, reg>>

\* a client calls AuthHandler.Logout (POST /auth/logout): 200 "logout
\* successful", and nothing else
DoLogout ==
    /\ call' = [NoCall EXCEPT !.done = TRUE, !.op = "logout", !.at = now,
                              !.n = call.n, !.out = TRUE]
    /\ UNCHANGED <<now, rlvars, tokvars, fnvars, users, login, reg>>

\* Register, lines 61-80: the request is validated and the store is asked
\* for a user with the email of the request
RegisterCheck(p, req, today, dbOk) ==
    /\ reg[p].pc = "idle"
    /\ LET v == ValidateRegistration(req, today)
           got == GetByEmail(users, req.Email, dbOk)
           r == [NoReg EXCEPT !.done = TRUE, !.req = req, !.today = today,
                              !.existed = NormalizeEmail(req.Email) \in DOMAIN users]
       IN reg' = [reg EXCEPT ![p] =
                    IF v # NoError
                    THEN [r EXCEPT !.res = RegisterResult(v, NoUser)]
                    ELSE IF got.err = ""
                    THEN [r EXCEPT !.read = TRUE,
                                   !.res = RegisterResult(
                              NewConflict("user with this email already exists"),
                              NoUser)]
                    ELSE [r EXCEPT !.pc = "create", !.done = FALSE,
                                   !.read = TRUE,
                                   !.missed = (got.err = "user not found")]]
    /\ UNCHANGED <<now, rlvars, tokvars, fnvars, users, login, call>>

\* Register, lines 82-117: the password is hashed, the user is inserted
\* and returned without its hash
RegisterCreate(p, dbOk) ==
    /\ reg[p].pc = "create"
    /\ LET c == Create(users, NewUser(reg[p].req), dbOk) IN
       /\ users' = c.tbl
       /\ reg' = [reg EXCEPT ![p] =
                    [@ EXCEPT !.pc = "idle", !.done = TRUE, !.hashed = TRUE,
                              !.created = TRUE, !.dbOk = dbOk,
                              !.res = IF c.err # NoError
                                      THEN RegisterResult(
                                               WrapError("failed to create user", c.err),
                                               NoUser)
                                      ELSE RegisterResult(NoError, Sanitized(c.user))]]
    /\ UNCHANGED <<now, rlvars, tokvars, fnvars, login, call>>

\* userRepository.SetInactive(ctx, id): the account is disabled in the store
SetInactive(e) ==
    /\ e \in DOMAIN users
    /\ users[e].IsActive
    /\ users' = [users EXCEPT ![e].IsActive = FALSE]
    /\ UNCHANGED <<now, rlvars, tokvars, fnvars, login, call, reg>>

IdleAuth ==
    /\ users = <<>>
    /\ login = NoLogin
    /\ call = NoCall
    /\ reg = [p \in Regs |-> NoReg]

\* the users table holds any set of accounts, each active or disabled
InitAuth ==
    /\ now = 0
    /\ IdleRL
    /\ IdleTok
    /\ IdleSerial
    /\ IdlePw
    /\ IdleHdr
    /\ \E S \in SUBSET StoredEmails :
           users \in [S -> {UserRow(e, Pw1, a) : e \in S, a \in BOOLEAN}]
    /\ \A e \in DOMAIN users : users[e].Email = e
    /\ login = NoLogin
    /\ call = NoCall
    /\ reg = [p \in Regs |-> NoReg]

\* sessions over time, for accounts that exist
NextAuth ==
    \/ \E email \in LoginEmails, password \in Passwords, dbOk \in BOOLEAN :
          DoLogin(email, password, dbOk)
    \/ \E presented \in Presentable, dbOk \in BOOLEAN : DoRefresh(presented, dbOk)
    \/ \E presented \in Presentable, dbOk \in BOOLEAN :
          DoValidateAccess(presented, dbOk)
    \/ \E e \in StoredEmails : SetInactive(e)
    \/ DoLogout
    \/ Tick

SpecAuth == InitAuth /\ [][NextAuth]_vars

\* the users table holds no account yet for the email that will be
\* registered, or one that is active or disabled
InitReg ==
    /\ now = 0
    /\ IdleRL
    /\ IdleTok
    /\ IdleSerial
    /\ IdlePw
    /\ IdleHdr
    /\ \E S \in SUBSET {NormalizeEmail(e) : e \in RegEmails} :
           users \in [S -> {UserRow(e, Pw1, a) : e \in S, a \in BOOLEAN}]
    /\ \A e \in DOMAIN users : users[e].Email = e
    /\ login = NoLogin
    /\ call = NoCall
    /\ reg = [p \in Regs |-> NoReg]

\* registration by concurrent clients, and the use of the registered
\* account, at one instant
NextReg ==
    \/ \E p \in Regs, email \in RegEmails, password \in RegPasswords,
          dbOk \in BOOLEAN :
            RegisterCheck(p, RegisterRequest(email, password), RegToday, dbOk)
    \/ \E p \in Regs, dbOk \in BOOLEAN : RegisterCreate(p, dbOk)
    \/ \E email \in RegEmails, password \in Passwords :
          DoLogin(email, password, TRUE)
    \/ DoValidateAccess("access", TRUE)
    \/ \E e \in {NormalizeEmail(x) : x \in RegEmails} : SetInactive(e)

SpecReg == InitReg /\ [][NextReg]_vars

\* the years of birth and the years of the call of the modelled requests,
\* and the days of the year they fall on
BirthYears == {2004, 2005, 2006}
CallYears == {2022, 2023, 2024}
MonthDays == {<<1, 1>>, <<2, 28>>, <<2, 29>>, <<3, 1>>, <<12, 31>>}
DatesIn(years) ==
    {Date(x[1], x[2][1], x[2][2]) :
        x \in {z \in years \X MonthDays : z[2][2] <= DaysIn(z[1], z[2][1])}}

\* the text fields Register requires
TextFields == {"Email", "Phone", "FirstName", "LastName", "AddressLine1",
               "City", "Postcode", "Country"}

\* the requests of one client and the days they are made on: complete
\* but for one field, with a malformed email, another spelling of the
\* stored email or a weak password, on a day long after the date of
\* birth; or complete, with a date of birth around 18 years before the day
RequestInputs ==
    (({[ValidRequest EXCEPT ![f] = ""] : f \in TextFields}
        \cup {[ValidRequest EXCEPT !.Password = <<>>],
              [ValidRequest EXCEPT !.DateOfBirth = ZeroDate],
              [ValidRequest EXCEPT !.Email = "not-an-email"],
              [ValidRequest EXCEPT !.Email = " A@X "],
              [ValidRequest EXCEPT !.Password = PwWeak]}) \X {RegToday})
    \cup ({[ValidRequest EXCEPT !.DateOfBirth = d] : d \in DatesIn(BirthYears)}
             \X DatesIn(CallYears))

InitForm == InitReg

\* one client registers, on any day
NextForm ==
    \/ \E in \in RequestInputs, dbOk \in BOOLEAN :
          RegisterCheck(1, in[1], in[2], dbOk)
    \/ \E dbOk \in BOOLEAN : RegisterCreate(1, dbOk)

SpecForm == InitForm /\ [][NextForm]_vars


\* NewRateLimiter(limit, window): empty table, cleanup goroutine started
InitRL ==
    /\ now = 0
    /\ limit \in 1..MaxLimit
    /\ window \in 1..MaxWindow
    /\ clients = <<>>
    /\ mu = Free
    /\ pc = [p \in Procs |-> "idle"]
    /\ loc = [p \in Procs |-> NoLoc]
    /\ ret = [p \in Procs |-> NoRet]
    /\ nextTick = window
    /\ admitted = [k \in Keys |-> 0]
    /\ calls = [k \in Keys |-> 0]
    /\ touched = [k \in Keys |-> 0]
    /\ IdleTok
    /\ IdleSerial
    /\ IdlePw
    /\ IdleHdr
    /\ IdleAuth

NextRL ==
    \/ \E p \in Procs, k \in Keys : Request(p, k, "/api/v1/auth/login")
    \/ \E p \in Procs : AllowEnter(p)
    \/ \E p \in Procs : AllowCheck(p)
    \/ \E p \in Procs : AllowDec(p)
    \/ \E p \in Procs : AllowReject(p)
    \/ \E p \in Procs : Respond(p)
    \/ \E p \in Procs, outcome \in Outcomes : Handle(p, outcome)
    \/ \E p \in Procs : Finish(p)
    \/ Cleanup
    \/ Tick

SpecRL == InitRL /\ [][NextRL]_vars

\* the middleware in front of the routes: requests of one client for a
\* health route and an API route, under a one-tick window
InitMW ==
    /\ InitRL
    /\ window = 1

NextMW ==
    \/ \E p \in Procs, r \in {"/health", "/api/v1/auth/login"} :
          Request(p, 1, r)
    \/ \E p \in Procs : AllowEnter(p)
    \/ \E p \in Procs : AllowCheck(p)
    \/ \E p \in Procs : AllowDec(p)
    \/ \E p \in Procs : AllowReject(p)
    \/ \E p \in Procs : Respond(p)
    \/ \E p \in Procs, outcome \in Outcomes : Handle(p, outcome)
    \/ \E p \in Procs : Finish(p)
    \/ Cleanup
    \/ Tick

SpecMW == InitMW /\ [][NextMW]_vars

\* requests that pass through allow one at a time, and the cleanup loop
InitSeq == InitRL

NextSeq ==
    \/ \E k \in Keys : Allow(k)
    \/ Cleanup
    \/ Tick

SpecSeq == InitSeq /\ [][NextSeq]_vars

InitTok ==
    /\ now = 0
    /\ IdleRL
    /\ IdleTok
    /\ IdleSerial
    /\ IdlePw
    /\ IdleHdr
    /\ IdleAuth

NextTok ==
    \/ \E uid \in UserIDs, email \in TokEmails, class \in Classes,
          ttl \in TTLs, secret \in Secrets :
            Issue(uid, email, class, ttl, secret)
    \/ TamperPayload
    \/ TamperSignature
    \/ PresentIssued
    \/ \E secret \in Secrets : Validate(secret)
    \/ Tick

SpecTok == InitTok /\ [][NextTok]_vars

\* two calls of the generator with the same arguments at two instants
InitTwice == InitTok

NextTwice ==
    \/ \E uid \in UserIDs, email \in TokEmails, class \in Classes,
          ttl \in TTLs, secret \in Secrets :
            Issue(uid, email, class, ttl, secret)
    \/ IssueAgain
    \/ ValidateBoth
    \/ Tick

SpecTwice == InitTwice /\ [][NextTwice]_vars

\* the strength validation of one password
InitPw ==
    /\ now = 0
    /\ IdleRL
    /\ IdleTok
    /\ IdleSerial
    /\ IdleAuth
    /\ strength \in [password : PasswordInputs, by : {""}, err : {""},
                     svc : {""}]
    /\ IdleHdr

NextPw ==
    \/ CheckStrength
    \/ CheckRegistrationPassword
    \/ CheckBothValidators

SpecPw == InitPw /\ [][NextPw]_vars

\* the client key of one request
InitKey ==
    /\ now = 0
    /\ IdleRL
    /\ IdleTok
    /\ IdleSerial
    /\ IdleAuth
    /\ IdlePw
    /\ inreq \in [req : HeaderInputs, done : {FALSE}, ip : {""}]

NextKey == DeriveKey

SpecKey == InitKey /\ [][NextKey]_vars


(***************************************************************************)
(* Properties of the rate limiter                                          *)
(***************************************************************************)
InAllow(p) == pc[p] \in {"check", "dec", "reject"}

\* C1: with limit = N >= 1, the first N allow(k) calls of one window return
\* allowed = true with remaining N-1, N-2, ..., 0, and every later call of
\* that window (the (N+1)th in particular) returns allowed = false.
C1_FirstNAdmitted ==
    \A p \in Procs :
        pc[p] = "done" =>
            /\ loc[p].nth >= 1
            /\ loc[p].nth <= limit =>
                  ret[p].allowed /\ ret[p].remaining = limit - loc[p].nth
            /\ loc[p].nth > limit => ~ret[p].allowed

\* the (N+1)th call of a window has been rejected, for N = 2
C1_Witness ==
    \E p \in Procs :
        /\ pc[p] = "done" /\ limit = 2
        /\ loc[p].nth = limit + 1 /\ ~ret[p].allowed

\* C2: an allow call that finds more than one window elapsed since the
\* record's window_start restores the full budget before it is evaluated:
\* the record becomes (limit, time of the call), and the call returns
\* allowed = true with remaining = limit - 1.
C2_ResetStep ==
    \A p \in Procs :
        /\ (/\ pc[p] = "lock" /\ pc'[p] = "check"
            /\ loc[p].ip \in DOMAIN clients
            /\ now - clients[loc[p].ip].lastReset > window)
           => clients'[loc[p].ip] = [tokens |-> limit, lastReset |-> now]
        /\ (pc'[p] = "done" /\ pc[p] # "done" /\ loc[p].late)
           => /\ ret'[p].allowed
              /\ ret'[p].remaining = limit - 1
              /\ ret'[p].resetTime = clients'[loc[p].ip].lastReset + window

C2_FullRestore == [][C2_ResetStep]_vars

\* a call that found an exhausted budget after its window elapsed was admitted
C2_Witness ==
    \E p \in Procs :
        /\ pc[p] = "done" /\ loc[p].late /\ loc[p].before = 0
        /\ limit = 2 /\ ret[p].allowed /\ ret[p].remaining = 1

\* C3: no step of an allow(k1) call, admitted or rejected, changes the
\* record of another key k2 (its presence, budget or window_start).
C3_FrameStep ==
    \A p \in Procs :
        (pc[p] \in {"lock", "check", "dec", "reject"} /\ pc'[p] # pc[p]) =>
            \A k2 \in Keys \ {loc[p].ip} :
                /\ (k2 \in DOMAIN clients') = (k2 \in DOMAIN clients)
                /\ k2 \in DOMAIN clients => clients'[k2] = clients[k2]

C3_KeysIndependent == [][C3_FrameStep]_vars

\* a call is admitted for one key while another key's budget is exhausted
C3_Witness ==
    \E p \in Procs : \E k1 \in DOMAIN clients :
        /\ pc[p] = "done" /\ ret[p].allowed
        /\ k1 # loc[p].ip /\ clients[k1].tokens = 0

\* C4: the check and the decrement of allow run under the limiter's lock:
\* at most one goroutine is between Lock and Unlock and it holds mu, every
\* admission since the record's window start took its own unit of budget,
\* and no more than limit requests are admitted per window.
C4_AtomicCheckAndDecrement ==
    /\ \A p, q \in Procs : (InAllow(p) /\ InAllow(q)) => p = q
    /\ \A p \in Procs : InAllow(p) => mu = p
    /\ \A k \in Keys : admitted[k] <= limit
    /\ \A k \in DOMAIN clients : admitted[k] = limit - clients[k].tokens

\* a request is about to take the last unit while another one for the same
\* key waits for the lock
C4_Witness ==
    \E p, q \in Procs :
        /\ p # q /\ pc[p] = "dec" /\ pc[q] = "lock"
        /\ loc[p].ip = loc[q].ip
        /\ clients[loc[p].ip].tokens = 1

\* C5: every client record's budget stays within 0..limit.
C5_BudgetInRange ==
    \A k \in DOMAIN clients :
        clients[k].tokens >= 0 /\ clients[k].tokens <= limit

\* one record is exhausted and a rejected call left it at 0, while another
\* record was created again after a sweep removed it
C5_Witness ==
    \E p \in Procs : \E k2 \in DOMAIN clients :
        /\ pc[p] = "done" /\ ~ret[p].allowed
        /\ clients[loc[p].ip].tokens = 0
        /\ k2 # loc[p].ip /\ clients[k2].tokens = limit /\ clients[k2].lastReset > 0

(***************************************************************************)
(* Properties of the token engine                                          *)
(***************************************************************************)
IssuedClaims == [UserID |-> gen.uid, Email |-> gen.email, TokenType |-> gen.class]

\* the issued token was validated under the secret it was signed with
ValidatedIssued ==
    vres.done /\ Issued /\ vres.presented = "issued" /\ vres.secret = gen.secret

\* C6: a token issued for a non-empty subject id, email and secret and a
\* positive ttl, validated under the same secret before its exp, is accepted
\* and yields exactly the subject id, the email and the class of the
\* generator that issued it.
C6_IssueValidateRoundTrip ==
    (ValidatedIssued /\ vres.at < gen.res.token.pay.bytes.exp) =>
        /\ vres.res.kind = "ok"
        /\ vres.res.claims = IssuedClaims
        /\ gen.uid # "" /\ gen.email # "" /\ gen.secret # "" /\ gen.ttl > 0

\* a refresh token for u2 / b@x was validated and gave back these claims
C6_Witness ==
    /\ ValidatedIssued /\ vres.res.kind = "ok"
    /\ vres.res.claims = [UserID |-> "u2", Email |-> "b@x", TokenType |-> "refresh"]

\* the token's exp claim: issue time + ttl, cut down to a whole second
TruncatedExpiry ==
    (gen.at + gen.ttl) - ((gen.at + gen.ttl) % TicksPerSecond)

\* C7 (as claimed): validation under the signing secret succeeds at every
\* time before issue time + ttl and reports Expired from then on (stated
\* here for a ttl of whole seconds).
C7_ExpiryAtIssuePlusTTL ==
    (ValidatedIssued /\ gen.ttl % TicksPerSecond = 0) =>
        /\ vres.at < gen.at + gen.ttl => vres.res.kind = "ok"
        /\ vres.at >= gen.at + gen.ttl => vres.res.kind = "expired"

\* C7 (amended): validation under the signing secret succeeds at every time
\* before expires_at and reports Expired at every time from expires_at on,
\* where expires_at is issue time + ttl rounded down to a whole second; a
\* token once reported expired is never reported valid again.
C7_ExpiryAtTruncatedSecond ==
    ValidatedIssued =>
        /\ vres.at < TruncatedExpiry => vres.res.kind = "ok"
        /\ vres.at >= TruncatedExpiry => vres.res.kind = "expired"
        /\ sawExpired => vres.res.kind # "ok"

\* a token issued in the middle of a second is reported expired at its exp
\* second, before issue time + ttl, after it had been reported valid
C7_Witness ==
    /\ ValidatedIssued /\ vres.res.kind = "expired" /\ sawExpired
    /\ gen.at % TicksPerSecond # 0
    /\ vres.at = TruncatedExpiry /\ vres.at < gen.at + gen.ttl
    /\ gen.at < TruncatedExpiry

\* C8 (as claimed): the issued token with its payload segment or its
\* signature segment changed, validated under the signing secret before the
\* token's expiry, is rejected as invalid and yields no claims.
C8_TamperedRejected ==
    (/\ vres.done /\ Issued /\ vres.presented \in {"payload", "signature"}
     /\ vres.secret = gen.secret /\ vres.at < TruncatedExpiry)
    => vres.res.kind = "invalid" /\ vres.res.claims = NoClaims

\* C9: the issued token validated under another secret is rejected as an
\* invalid token for its signature: never with claims and never as Expired,
\* whatever its class and whether or not its lifetime is over (an empty
\* secret is refused before the token is looked at).
C9_WrongSecretRejected ==
    (vres.done /\ Issued /\ vres.presented = "issued" /\ vres.secret # gen.secret)
    => /\ vres.res.claims = NoClaims
       /\ vres.res.kind \notin {"ok", "expired"}
       /\ vres.secret # "" =>
             /\ vres.res.kind = "invalid"
             /\ vres.res.cause = "token signature is invalid"

\* an expired refresh token was rejected as invalid under another secret
C9_Witness ==
    /\ vres.done /\ Issued /\ vres.presented = "issued"
    /\ vres.secret \notin {gen.secret, ""}
    /\ gen.class = "refresh" /\ vres.at >= TruncatedExpiry
    /\ vres.res.kind = "invalid"

(***************************************************************************)
(* Properties of the credential service                                    *)
(***************************************************************************)
InvalidCredentials == NewUnauthorized("invalid email or password")

\* C10: Login with a non-empty email and a non-empty password that is not
\* the correct password of an account with that email fails with the same
\* InvalidCredentials error (kind, message, status) whether or not a user
\* with that email exists and whatever that user's state; no token is issued.
C10_LoginHidesExistence ==
    (login.done /\ login.email # "" /\ login.password # <<>> /\ ~login.correct)
    => /\ login.res.error = InvalidCredentials
       /\ login.res.AccessToken = EmptyString
       /\ login.res.RefreshToken = EmptyString

\* the Register call of client p succeeded
Registered(p) == reg[p].done /\ reg[p].res.error = NoError

CalledWith(op, presented) ==
    /\ call.done /\ call.op = op /\ call.presented = presented
    /\ LoggedIn /\ call.live

\* C12: ValidateAccessToken with the access token of a successful Login,
\* before the token's expiry and while the account is active (and the
\* store answers), succeeds and returns the user who logged in: same id,
\* same email.
C12_ValidateAccessReturnsSubject ==
    (CalledWith("validate", "access") /\ call.active /\ call.dbOk)
    => /\ call.res.error = NoError
       /\ call.res.User.ID = login.res.User.ID
       /\ call.res.User.Email = login.res.User.Email
       /\ call.res.User.ID = UserIDOf(NormalizeEmail(login.email))

\* the second account of a store with two accounts was returned
C12_Witness ==
    /\ CalledWith("validate", "access") /\ call.res.error = NoError
    /\ DOMAIN users = StoredEmails
    /\ call.res.User.ID = "u2" /\ call.res.User.Email = "b@x"
    /\ call.at > login.res.AccessToken.pay.bytes.iat

\* C13: RefreshToken with an unexpired access token of the service, and
\* ValidateAccessToken with an unexpired refresh token of the service,
\* fail with InvalidTokenType (401 "invalid token type"), issue no token,
\* return no user and do not read the store.
C13_ClassesNotInterchangeable ==
    (CalledWith("refresh", "access") \/ CalledWith("validate", "refresh"))
    => /\ call.res.error = NewUnauthorized("invalid token type")
       /\ call.res.resp = NilResponse
       /\ call.res.User = NoUser
       /\ call.res.reads = 0

\* a refresh token was refused by ValidateAccessToken although the access
\* token of the same Login had expired and the account was active
C13_Witness ==
    /\ CalledWith("validate", "refresh") /\ call.active
    /\ ~Live(login.res.AccessToken, call.at)
    /\ call.res.error.message = "invalid token type"

\* C14: once the account is disabled in the store, RefreshToken with the
\* unexpired refresh token and ValidateAccessToken with the unexpired
\* access token of an earlier Login fail with Inactive (403 "account is
\* inactive"); no access token is issued and no user is returned.
C14_DeactivatedAccountRefused ==
    (/\ CalledWith("refresh", "refresh") \/ CalledWith("validate", "access")
     /\ ~call.active /\ call.dbOk)
    => /\ call.res.error = NewForbidden("account is inactive")
       /\ call.res.resp = NilResponse
       /\ call.res.User = NoUser

\* a refresh token that had been accepted was refused after the account
\* was disabled
C14_Witness ==
    /\ CalledWith("refresh", "refresh") /\ ~call.active /\ call.n >= 1
    /\ call.res.error.status = 403

\* C15: RefreshToken with the unexpired refresh token of a Login, for an
\* account that exists and is active, succeeds on every call, however many
\* calls were made before with the same token; the response carries an
\* access token and no refresh token.
C15_RefreshNotConsumed ==
    (CalledWith("refresh", "refresh") /\ call.active /\ call.dbOk)
    => /\ call.res.error = NoError
       /\ call.n >= 1
       /\ DOMAIN call.res.resp = {"AccessToken", "TokenType", "ExpiresIn"}
       /\ call.res.resp.AccessToken.shape = "jwt"
       /\ call.res.resp.AccessToken.pay.bytes.typ = "access"
       /\ call.res.resp.AccessToken.pay.bytes.uid = login.res.User.ID

\* the same refresh token was accepted again, later than the first time
C15_Witness ==
    /\ CalledWith("refresh", "refresh") /\ call.res.error = NoError
    /\ call.n = MaxRefreshes
    /\ call.at > login.res.RefreshToken.pay.bytes.iat + 1

\* C16: Login with the correct password of an existing account that is
\* disabled fails with Inactive (403, "user account is inactive") and
\* returns neither an access token nor a refresh token.
C16_InactiveLoginRefused ==
    (login.done /\ login.existed /\ login.correct /\ ~login.active /\ login.dbOk)
    => /\ login.res.error.status = 403
       /\ login.res.error.err = "user account is inactive"
       /\ login.res.error.message = "account is inactive"
       /\ login.res.AccessToken = EmptyString
       /\ login.res.RefreshToken = EmptyString
       /\ login.res.User = NoUser

\* a Login with another spelling of the stored email and the correct
\* password was refused for a disabled account
C16_Witness ==
    /\ login.done /\ login.existed /\ login.correct /\ ~login.active
    /\ login.res.error.status = 403
    /\ login.email = " A@X "

\* C17 (as claimed): a Register call whose request passes validation and
\* whose email the store already holds a user for fails with AlreadyExists
\* (409), returns no user, and does not call the store's Create (stated
\* here for a store that answers every call made to it).
C17_DuplicateStoppedBeforeCreate ==
    \A p \in Regs :
        (/\ reg[p].done /\ reg[p].existed
         /\ ValidateRegistration(reg[p].req, reg[p].today) = NoError
         /\ reg[p].created => (reg[p].missed /\ reg[p].dbOk))
        => /\ reg[p].res.error.err = "user already exists"
           /\ reg[p].res.error.status = 409
           /\ reg[p].res.User = NoUser
           /\ ~reg[p].created

\* C18: a Register call whose existence check answered NotFound and whose
\* insert meets the row another call created in between fails with the
\* AlreadyExists outcome of a pre-check hit (same kind, status 409) and
\* returns no user; no two Register calls succeed for one email, a call
\* succeeds only for an email the store did not hold, and the store holds
\* the user of that email.
C18_RaceYieldsOneUser ==
    /\ \A p \in Regs :
          (reg[p].done /\ reg[p].created /\ reg[p].dbOk) =>
             /\ NormalizeEmail(reg[p].req.Email) \in DOMAIN users
             /\ Registered(p) => ~reg[p].existed
             /\ ~Registered(p) =>
                   /\ reg[p].res.error.err =
                         NewConflict("user with this email already exists").err
                   /\ reg[p].res.error.status =
                         NewConflict("user with this email already exists").status
                   /\ reg[p].res.User = NoUser
    /\ \A p, q \in Regs :
          (/\ p # q /\ Registered(p) /\ Registered(q))
          => NormalizeEmail(reg[p].req.Email) # NormalizeEmail(reg[q].req.Email)

\* two calls for the same email both passed the existence check; one
\* created the user and the other was refused at the insert
C18_Witness ==
    \E p, q \in Regs :
        /\ p # q /\ Registered(p)
        /\ reg[q].done /\ reg[q].missed /\ ~reg[q].existed /\ reg[q].created
        /\ reg[q].req.Email = reg[p].req.Email
        /\ reg[q].res.error.status = 409

\* C19: every user record that Register, Login or ValidateAccessToken
\* returns has an empty password hash, and when Register succeeds the
\* record it returns and the row the store then holds are active and have
\* verification status "pending".
C19_Step ==
    /\ \A p \in Regs :
          reg'[p].done =>
             /\ reg'[p].res.User.PasswordHash = Bcrypt(<<>>, "")
             /\ (reg[p].pc = "create" /\ reg'[p].res.error = NoError) =>
                   LET e == NormalizeEmail(reg[p].req.Email) IN
                   /\ reg'[p].res.User.IsActive
                   /\ reg'[p].res.User.KYCStatus = "pending"
                   /\ reg'[p].res.User.Email = e
                   /\ e \in DOMAIN users'
                   /\ users'[e].IsActive
                   /\ users'[e].KYCStatus = "pending"
                   /\ users'[e].ID = reg'[p].res.User.ID
                   /\ ComparePasswords(users'[e].PasswordHash, reg[p].req.Password)
    /\ login'.res.User.PasswordHash = Bcrypt(<<>>, "")
    /\ call'.res.User.PasswordHash = Bcrypt(<<>>, "")

C19_ReturnedRecordsSanitized == [][C19_Step]_vars

\* Register, Login and ValidateAccessToken have each returned the record
\* of the registered account
C19_Witness ==
    \E p \in Regs :
        /\ Registered(p) /\ reg[p].res.User.Email = "a@x"
        /\ LoggedIn /\ login.res.User.Email = "a@x"
        /\ call.done /\ call.op = "validate" /\ call.res.error = NoError
        /\ call.res.User.Email = "a@x"
        /\ users["a@x"].PasswordHash = Bcrypt(Pw2, "salt")

\* C20 (as claimed): the access token that RefreshToken returns for the
\* refresh token of a Login differs from the access token that Login
\* returned, however soon after the Login the call is made (stated here
\* for calls made at a later instant than the token's iat second began).
C20_RefreshedTokenDiffers ==
    (/\ CalledWith("refresh", "refresh") /\ call.res.error = NoError
     /\ call.at > login.res.AccessToken.pay.bytes.iat)
    => call.res.resp.AccessToken # login.res.AccessToken

(***************************************************************************)
(* Properties of the middleware in front of the routes                     *)
(***************************************************************************)
\* C22: every request, whatever its route, makes exactly one allow call
\* before its handler runs; a request that allow rejects is answered 429
\* with a Retry-After value and never reaches the handler
C22_Step ==
    \A p \in Procs :
        /\ (pc[p] = "idle" /\ pc'[p] # "idle") => pc'[p] = "lock"
        /\ (pc'[p] = "lock" /\ pc[p] # "lock") => pc[p] = "idle"
        /\ (pc'[p] = "check" /\ pc[p] # "check") => pc[p] = "lock"
        /\ (pc'[p] = "handler" /\ pc[p] # "handler")
              => pc[p] = "done" /\ ret[p].allowed
        /\ (pc[p] = "done" /\ ~ret[p].allowed /\ pc'[p] # "done")
              => /\ pc'[p] = "sent"
                 /\ loc'[p].outcome = "rejected"
                 /\ loc'[p].retry = ret[p].resetTime - now
        /\ (pc'[p] = "sent" /\ loc'[p].outcome # "rejected" /\ pc[p] # "sent")
              => pc[p] = "handler"
C23_Step ==
    \A p \in Procs :
        LET k == loc[p].ip IN
        /\ (/\ pc[p] = "lock" /\ pc'[p] = "check" /\ k \in DOMAIN clients
            /\ clients[k].tokens = 0
            /\ now - clients[k].lastReset <= window)
              => clients' = clients
        /\ (pc[p] = "check" /\ pc'[p] # "check" /\ clients[k].tokens = 0)
              => pc'[p] = "reject" /\ clients' = clients
        /\ (pc[p] = "reject" /\ pc'[p] # "reject")
              => /\ pc'[p] = "done"
                 /\ ret'[p] = [allowed |-> FALSE, remaining |-> 0,
                               resetTime |-> clients[k].lastReset + window]
                 /\ clients' = clients
C23_RejectionLeavesRecord == [][C23_Step]_vars

\* C23 witness: a call has been rejected for a key with budget 0
C23_Witness ==
    \E p \in Procs :
        /\ pc[p] = "done" /\ ~ret[p].allowed /\ ret[p].remaining = 0
        /\ loc[p].ip \in DOMAIN clients
        /\ clients[loc[p].ip].tokens = 0
        /\ ret[p].resetTime = clients[loc[p].ip].lastReset + window
        /\ now < ret[p].resetTime

\* C24 (as stated): an allow call made at reset_at (the window start +
\* window of the key's record) or at any later time finds budget and is
\* admitted
C24_StepFromResetAt ==
    \A p \in Procs :
        LET k == loc[p].ip IN
        /\ (/\ pc[p] = "lock" /\ pc'[p] = "check" /\ k \in DOMAIN clients
            /\ now >= clients[k].lastReset + window)
              => clients'[k].tokens > 0
        /\ (pc[p] = "check" /\ pc'[p] # "check" /\ clients[k].tokens > 0)
              => pc'[p] = "dec"
        /\ (pc[p] = "dec" /\ pc'[p] # "dec")
              => pc'[p] = "done" /\ ret'[p].allowed
C24_AdmittedFromResetAt == [][C24_StepFromResetAt]_vars

\* C24 (amended): an allow call made at any time strictly later than
\* reset_at finds the full budget and is admitted
C24_StepAfterResetAt ==
    \A p \in Procs :
        LET k == loc[p].ip IN
        /\ (/\ pc[p] = "lock" /\ pc'[p] = "check" /\ k \in DOMAIN clients
            /\ now > clients[k].lastReset + window)
              => clients'[k].tokens = limit /\ limit > 0
        /\ (pc[p] = "check" /\ pc'[p] # "check" /\ clients[k].tokens > 0)
              => pc'[p] = "dec"
        /\ (pc[p] = "dec" /\ pc'[p] # "dec")
              => pc'[p] = "done" /\ ret'[p].allowed
C24_AdmittedAfterResetAt == [][C24_StepAfterResetAt]_vars

\* C24 witness: a key whose budget had been used up has been admitted
\* again by a call made after reset_at
C24_Witness ==
    \E p \in Procs :
        /\ pc[p] = "done" /\ ret[p].allowed
        /\ loc[p].late /\ loc[p].before = 0
        /\ ret[p].remaining = limit - 1

\* C25: the budget is decremented with the allow decision, before the
\* handler runs, and the end of the handler, whether it answers, fails or
\* is cancelled, leaves every record as it is
C25_Step ==
    \A p \in Procs :
        LET k == loc[p].ip IN
        /\ (pc[p] = "dec" /\ pc'[p] # "dec")
              => clients'[k].tokens = clients[k].tokens - 1
        /\ (pc'[p] = "handler" /\ pc[p] # "handler")
              => pc[p] = "done" /\ ret[p].allowed
        /\ (pc[p] = "handler" /\ pc'[p] # "handler")
              => clients' = clients /\ admitted' = admitted
        /\ (pc[p] = "sent" /\ pc'[p] # "sent")
              => clients' = clients /\ admitted' = admitted
        /\ \A x \in DOMAIN clients : clients[x].tokens = limit - admitted[x]
C25_DecrementNeverUndone == [][C25_Step]_vars

\* C25 witness: the handler of the only request made so far has failed or
\* was cancelled, and the key's budget is one below the limit
C25_Witness ==
    \E p \in Procs :
        /\ pc[p] = "sent" /\ loc[p].outcome \in {"failed", "cancelled"}
        /\ \A q \in Procs \ {p} : pc[q] = "idle"
        /\ 1 \in DOMAIN clients
        /\ admitted[1] = 1 /\ calls[1] = 1
        /\ clients[1].tokens = limit - 1

\* C26 (as stated): a pass of the sweep removes exactly the records for
\* which no allow call was made for more than 2 x window, and keeps every
\* record touched within the last 2 x window
C26_StepUntouched ==
    nextTick' # nextTick
        => /\ DOMAIN clients' =
                 {k \in DOMAIN clients : now - touched[k] <= 2 * window}
           /\ \A k \in DOMAIN clients' : clients'[k] = clients[k]
C26_StepOldWindow ==
    nextTick' # nextTick
        => /\ DOMAIN clients' =
                 {k \in DOMAIN clients : now - clients[k].lastReset <= 2 * window}
           /\ \A k \in DOMAIN clients' : clients'[k] = clients[k]
C28_StoreFailureIsInternal ==
    /\ (login.done /\ login.email # "" /\ login.password # <<>> /\ ~login.dbOk)
          => /\ login.res.error.err = "internal"
             /\ login.res.error.status = 500
             /\ login.res.AccessToken = EmptyString
             /\ login.res.RefreshToken = EmptyString
    /\ (/\ CalledWith("refresh", "refresh") \/ CalledWith("validate", "access")
        /\ ~call.dbOk)
          => /\ call.res.error.err = "internal"
             /\ call.res.error.status = 500
             /\ call.res.resp = NilResponse
             /\ call.res.User = NoUser

(***************************************************************************)
(* Properties of repeated issuance                                         *)
(***************************************************************************)
\* C21: two tokens issued for the same subject id, email, class, lifetime
\* and secret at two different instants are different strings, and both
\* validate to the same subject id and email
C21_TokensAtTwoInstantsDiffer ==
    (again.done /\ again.res.err = "")
        => /\ again.at # gen.at
           /\ again.res.token # gen.res.token
           /\ (again.checked /\ again.first.kind = "ok"
                             /\ again.second.kind = "ok")
                 => /\ again.first.claims.UserID = again.second.claims.UserID
                    /\ again.first.claims.Email = again.second.claims.Email

(***************************************************************************)
(* Properties of the client key                                            *)
(***************************************************************************)
\* the address of the socket peer: the host of RemoteAddr
SocketAddress(a) == a.host

\* the first non-empty string of a list, "" when there is none
FirstNonEmpty(l) ==
    IF \E i \in DOMAIN l : l[i] # ""
    THEN l[CHOOSE i \in DOMAIN l : l[i] # "" /\ \A j \in 1..(i - 1) : l[j] = ""]
    ELSE ""

FirstForwarded(h) == IF h.xff = <<>> THEN "" ELSE h.xff[1].text

\* C27: the key of a request is the first non-empty of: the first entry of
\* X-Forwarded-For, X-Real-IP, the socket address; it is never empty when
\* the socket address is non-empty; requests with the same first forwarded
\* entry have the same key whatever their socket addresses
C27_KeyIsFirstNonEmpty ==
    inreq.done
        => /\ inreq.ip = FirstNonEmpty(<<FirstForwarded(inreq.req),
                                         inreq.req.xri,
                                         SocketAddress(inreq.req.remote)>>)
           /\ SocketAddress(inreq.req.remote) # "" => inreq.ip # ""
           /\ FirstForwarded(inreq.req) # ""
                 => \A a \in RemoteAddrs :
                       getClientIP([inreq.req EXCEPT !.remote = a]) = inreq.ip

(***************************************************************************)
(* Properties of the password strength rules                               *)
(***************************************************************************)
\* the rule an error text reports, "none" for no error
RuleOf(msg) ==
    CASE msg = "" -> "none"
      [] msg = "password must be at least 8 characters long" -> "length"
      [] msg = "password too long: maximum 72 bytes" -> "length"
      [] msg = "password too long: maximum 72 characters" -> "length"
      [] msg = "password must contain at least one uppercase letter" -> "upper"
      [] msg = "password must contain at least one lowercase letter" -> "lower"
      [] msg = "password must contain at least one number" -> "number"
      [] msg = "password must contain at least one special character" -> "symbol"
      [] OTHER -> "common"

\* the rules a password violates under the validator of package by (the
\* one of package utils when both were called: err is its text)
Violated(password, by) ==
    {r \in {"length", "upper", "lower", "number", "symbol", "common"} :
        CASE r = "length" -> Len(password) < 8 \/ Len(password) > 72
          [] r = "upper" -> \A i \in DOMAIN password :
                               password[i] \notin Range(UpperLetters)
          [] r = "lower" -> \A i \in DOMAIN password :
                               password[i] \notin Range(LowerLetters)
          [] r = "number" -> \A i \in DOMAIN password : password[i] \notin Digits
          [] r = "symbol" -> \A i \in DOMAIN password :
                               password[i] \notin
                                   (IF by = "services" THEN specialClass
                                                       ELSE specialChars)
          [] OTHER -> ToLower(password) \in
                          (IF by = "services" THEN services_commonPasswords
                                              ELSE utils_commonPasswords)}

\* the first rule of an order that is in a set of rules
FirstOf(order, rules) ==
    IF \E i \in DOMAIN order : order[i] \in rules
    THEN order[CHOOSE i \in DOMAIN order :
                   order[i] \in rules /\ \A j \in 1..(i - 1) : order[j] \notin rules]
    ELSE "none"

\* C29 (as stated): the rules are checked in the order length, a-z, A-Z,
\* digit, symbol, deny-list, and the reported reason is the first rule
\* violated in this order
C29_ReasonIsFirstLowerBeforeUpper ==
    strength.by # ""
        => RuleOf(strength.err) =
              FirstOf(<<"length", "lower", "upper", "number", "symbol", "common">>,
                      Violated(strength.password, strength.by))

\* C29 (amended): the rules are checked in the order length, A-Z, a-z,
\* digit, symbol, deny-list, and the reported reason is the first rule
\* violated in this order
C29_ReasonIsFirstUpperBeforeLower ==
    strength.by # ""
        => RuleOf(strength.err) =
              FirstOf(<<"length", "upper", "lower", "number", "symbol", "common">>,
                      Violated(strength.password, strength.by))

\* C29 witness: a password of valid length with neither a lowercase nor an
\* uppercase letter has been validated and reported for its missing
\* uppercase letter
C29_Witness ==
    /\ strength.by = "utils"
    /\ {"upper", "lower"} \subseteq Violated(strength.password, "utils")
    /\ "length" \notin Violated(strength.password, "utils")
    /\ RuleOf(strength.err) = "upper"

\* C30: ValidatePasswordStrength rejects as too common a password that
\* satisfies every character rule and is, in any letter case, a common
\* password; in particular "Password123!" and "Qwerty123!"
C30_CommonPasswordRejected ==
    (/\ strength.by = "utils"
     /\ \/ strength.password \in {<<"P", "a", "s", "s", "w", "o", "r", "d", "1", "2", "3", "!">>,
                                  <<"Q", "w", "e", "r", "t", "y", "1", "2", "3", "!">>}
        \/ Violated(strength.password, "utils") = {"common"})
        => RuleOf(strength.err) = "common"


\* C40: AuthService.validatePassword and utils.ValidatePasswordStrength
\* agree on every password: they accept the same passwords and, for a
\* rejected one, report the same failing rule
C40_ValidatorsAgree ==
    strength.by = "both" => RuleOf(strength.err) = RuleOf(strength.svc)

(***************************************************************************)
(* Properties of token issuance                                            *)
(***************************************************************************)
\* the call of the generator was given an empty subject id, email or
\* secret, or a lifetime of zero or less
BadIssueInput ==
    gen.uid = "" \/ gen.email = "" \/ gen.secret = "" \/ gen.ttl <= 0

Earlier(a, b) ==
    \/ a.Year < b.Year
    \/ a.Year = b.Year /\ a.Month < b.Month
    \/ a.Year = b.Year /\ a.Month = b.Month /\ a.Day < b.Day

\* the 18th birthday of someone born on dob (1 March for someone born on
\* 29 February, when that year has none)
EighteenthBirthday(dob) ==
    IF dob.Month = 2 /\ dob.Day = 29 /\ ~IsLeap(dob.Year + 18)
    THEN Date(dob.Year + 18, 3, 1)
    ELSE Date(dob.Year + 18, dob.Month, dob.Day)

\* Register has answered a request of p that is complete and valid, its
\* date of birth left aside
AnsweredOnAge(p) ==
    /\ reg[p].done
    /\ reg[p].req.DateOfBirth # ZeroDate
    /\ reg[p].req = [ValidRequest EXCEPT !.DateOfBirth = reg[p].req.DateOfBirth]

\* C31: Register accepts a date of birth exactly when the applicant has
\* reached their 18th birthday on the day of the call: it rejects with the
\* under-18 error anyone whose 18th birthday is still ahead, and accepts
\* anyone whose 18th birthday is that day or past, leap years and
\* 29 February included
C31_AcceptedFromEighteenthBirthday ==
    \A p \in Regs :
        AnsweredOnAge(p) =>
            IF Earlier(reg[p].today, EighteenthBirthday(reg[p].req.DateOfBirth))
            THEN /\ reg[p].res.error =
                       [err |-> "invalid input", status |-> 400,
                        message |-> "you must be at least 18 years old to register"]
                 /\ reg[p].res.User = NoUser
            ELSE reg[p].res.error.err # "invalid input"

\* C32: Register fails with an invalid-input error and returns no user
\* whenever one of the required fields email, phone, password, first
\* name, last name, date of birth, address line 1, city, postcode or
\* country is missing or empty
C32_MissingFieldRefused ==
    \A p \in Regs :
        (/\ reg[p].done
         /\ \/ \E f \in TextFields : reg[p].req[f] = ""
            \/ reg[p].req.Password = <<>>
            \/ reg[p].req.DateOfBirth = ZeroDate)
            => /\ reg[p].res.error.err = "invalid input"
               /\ reg[p].res.error.status = 400
               /\ reg[p].res.User = NoUser
               /\ ~reg[p].created

\* the first input validation a request fails, in the order required
\* fields and age, email syntax, password strength
FirstFailure(req, today) ==
    IF validateRegistrationRequest(req, today) # NoError
    THEN validateRegistrationRequest(req, today)
    ELSE IF validateEmail(req.Email) # NoError THEN validateEmail(req.Email)
    ELSE validatePassword(req.Password)

\* C36: Register checks the required fields and the age, then the email
\* syntax, then the password strength, before it looks the email up,
\* hashes the password and creates the user: a request that fails an input
\* validation is answered with the first failure, and for it the store is
\* neither read nor written and the password is not hashed
C36_ValidationBeforeStore ==
    \A p \in Regs :
        (/\ reg[p].done \/ reg[p].pc = "create"
         /\ FirstFailure(reg[p].req, reg[p].today) # NoError)
            => /\ reg[p].pc = "idle"
               /\ reg[p].res = [error |-> FirstFailure(reg[p].req, reg[p].today),
                                User |-> NoUser]
               /\ ~reg[p].read /\ ~reg[p].hashed /\ ~reg[p].created

\* C36 witness: a request with a weak password for an email the table
\* holds was refused for its password, and the table was not read
C36_Witness ==
    \E p \in Regs :
        /\ reg[p].done /\ reg[p].existed
        /\ reg[p].req.Password = <<"w", "e", "a", "k">>
        /\ reg[p].res.error.message = "password must be at least 8 characters long"
        /\ ~reg[p].read /\ ~reg[p].hashed /\ ~reg[p].created

\* C39: emails are handled trimmed and lower-cased by every operation:
\* once Register has stored a user, a Login with the correct password and
\* an email that differs from the registered one only by letter case or
\* surrounding blanks finds that user, a Register with any spelling of an
\* email the store holds fails with AlreadyExists (409) and returns no
\* user, and no row is ever stored under another spelling (stated for a
\* store that answers every call made to it)
C39_SpellingsNameOneUser ==
    /\ " A@X " \notin DOMAIN users
    /\ \A p \in Regs :
          (/\ Registered(p) /\ login.done
           /\ {login.email, reg[p].req.Email} = {"a@x", " A@X "}
           /\ login.existed /\ login.active /\ login.correct /\ login.dbOk)
          => /\ login.res.error = NoError
             /\ login.res.User.Email = "a@x"
             /\ login.res.User.ID = reg[p].res.User.ID
    /\ \A q \in Regs :
          (/\ reg[q].done /\ "a@x" \in DOMAIN users
           /\ reg[q].existed
           /\ reg[q].req.Email \in {"a@x", " A@X "}
           /\ reg[q].req.Password # <<"w", "e", "a", "k">>
           /\ reg[q].created => reg[q].dbOk)
          => /\ reg[q].res.error.err = "user already exists"
             /\ reg[q].res.error.status = 409
             /\ reg[q].res.User = NoUser

\* C39 witness: a user was registered as "a@x", a Register with " A@X "
\* made when the store held that user was refused as a duplicate by the
\* insert, and a Login with " A@X " succeeded
C39_Witness ==
    \E p, q \in Regs :
        /\ Registered(p) /\ reg[p].req.Email = "a@x"
        /\ reg[q].done /\ reg[q].req.Email = " A@X "
        /\ reg[q].existed /\ reg[q].missed /\ reg[q].created
        /\ reg[q].res.error.status = 409
        /\ login.done /\ login.email = " A@X " /\ login.res.error = NoError
        /\ DOMAIN users = {"a@x"}

\* C34: tokens carry no revoked state: whether a token of the last Login
\* validates depends on the token, the secret and the clock only, so in
\* every state, whatever calls were made since (RefreshToken,
\* ValidateAccessToken, Logout), each of the two tokens validates under the
\* service's secret exactly until its exp claim; ValidateAccessToken with
\* the access token and RefreshToken with the refresh token keep
\* succeeding for an active account, after a Logout and after a newer
\* access token was issued
C34_NoRevokedState ==
    LoggedIn =>
        /\ \A tok \in {login.res.AccessToken, login.res.RefreshToken} :
              ValidateToken(tok, JWTSecret, now).kind =
                  IF now < tok.pay.bytes.exp THEN "ok" ELSE "expired"
        /\ (/\ CalledWith("validate", "access") \/ CalledWith("refresh", "refresh")
            /\ call.active /\ call.dbOk)
              => call.res.error = NoError

\* C34 witness: the access token of a Login was accepted by
\* ValidateAccessToken after the refresh token had bought a newer access
\* token and after Logout was called
C34_Witness ==
    /\ CalledWith("validate", "access") /\ call.out /\ call.n >= 1
    /\ call.res.error = NoError
    /\ call.res.User.ID = login.res.User.ID

(***************************************************************************)
(* Properties of the window of the rate limiter                            *)
(***************************************************************************)
\* C35: the budget of a record is raised, and its window_start changed,
\* only by an allow call for its key that finds now - window_start >
\* window, which sets them to limit and now; an allow call that finds
\* now - window_start <= window (window_start + window itself included)
\* leaves both as they are; the sweep and the calls for other keys never
\* raise the budget of a record
C35_Step ==
    /\ \A k \in DOMAIN clients \cap DOMAIN clients' :
          (\/ clients'[k].tokens > clients[k].tokens
           \/ clients'[k].lastReset # clients[k].lastReset)
          => /\ \E p \in Procs :
                   /\ pc[p] = "lock" /\ pc'[p] = "check" /\ loc[p].ip = k
             /\ now - clients[k].lastReset > window
             /\ clients'[k] = [tokens |-> limit, lastReset |-> now]
    /\ \A p \in Procs :
          (/\ pc[p] = "lock" /\ pc'[p] = "check"
           /\ loc[p].ip \in DOMAIN clients
           /\ now - clients[loc[p].ip].lastReset <= window)
          => clients' = clients

C35_ResetOnlyAfterWindow == [][C35_Step]_vars

\* C35 witness: an allow call entered exactly at window_start + window and
\* found the exhausted budget as it was
C35_Witness ==
    \E p \in Procs :
        /\ pc[p] = "check" /\ loc[p].ip \in DOMAIN clients
        /\ now - clients[loc[p].ip].lastReset = window
        /\ clients[loc[p].ip].tokens = 0
        /\ \E k \in DOMAIN clients : k # loc[p].ip

\* C37: cleanup is invisible to the callers of allow: for limit >= 1 and
\* any sequence of allow calls over time, every call returns the same
\* (allowed, remaining, reset_at) as it does from a limiter whose cleanup
\* never runs, because a record that cleanup removed is one the next call
\* for its key would have reset to a full budget
C37_SweepInvisible ==
    /\ serial.res = serial.pres
    /\ \A k \in DOMAIN clients : k \in DOMAIN serial.plain
                                    /\ serial.plain[k] = clients[k]
    /\ \A k \in DOMAIN serial.plain :
          k \notin DOMAIN clients => now - serial.plain[k].lastReset > window

\* C37 witness: a call found its record removed by cleanup, with an
\* exhausted budget in the table of the limiter without cleanup, and was
\* admitted with the result that limiter gave
C37_Witness ==
    /\ serial.swept /\ serial.res.allowed
    /\ serial.res = serial.pres
    /\ limit = 2 /\ serial.res.remaining = 1
    /\ serial.res.resetTime = now + window

\* the requests admitted for key k at the ticks from to
RECURSIVE AdmittedIn(_, _, _)
AdmittedIn(k, from, to) ==
    IF from > to \/ from > MaxTime THEN 0
    ELSE serial.hist[k][from] + AdmittedIn(k, from + 1, to)

\* C38: for limit >= 1, the requests admitted for one key in a time
\* interval of length window are never more than 2 * limit - 1
C38_AtMostTwiceLimitLessOne ==
    \A k \in Keys : \A a \in Times :
        AdmittedIn(k, a, a + window) <= 2 * limit - 1

\* C38 witness: more than limit requests of one key were admitted in an
\* interval of length window
C38_Witness ==
    \E k \in Keys : \E a \in Times :
        /\ a + window <= MaxTime
        /\ AdmittedIn(k, a, a + window) > limit
        /\ AdmittedIn(k, a, a + window) = 2 * limit - 1

=========================================================================
